---- MODULE Spec2Model ----
(***************************************************************************)
(* A model of solid-renderless-api: the wrappers Show, For, Effect,        *)
(* Cleanup, State, Global and resetGlobalStates, running on the solid-js   *)
(* reactive runtime they call (createSignal, createComputed, onCleanup,    *)
(* mapArray, createRoot).                                                  *)
(*                                                                         *)
(* One action is one synchronous call made by the host program: the       *)
(* whole propagation a write triggers is part of the write's action.       *)
(* The runtime is a record `w` (the "world") threaded through recursive    *)
(* operators; the variables hold the world between two calls.              *)
(***************************************************************************)
EXTENDS Integers, Sequences, FiniteSets, TLC

VARIABLES
  node,           \* the owner tree: roots and computations, by id
  sig,            \* the signals, by id
  phase,          \* "body": inside createRoot's callback; "mounted": after it returned
  globalSignals,  \* the registry: key -> signal id, 0 when the key is absent
  handles,        \* the [get, set] pairs the host program holds, by slot
  currentContext, \* the interpreter's current-context register
  lastError,      \* "" or the error the last call threw
  live,           \* the resources the Show branches hold
  runs,           \* the { result, dispose } pairs of runLogic the host holds, by slot
  log             \* what the last call did, in order

vars == <<node, sig, phase, globalSignals, handles, currentContext, lastError, live,
          runs, log>>

----------------------------------------------------------------------------
(* Bounds *)

MaxVal == 2
NItems == 3
MaxLen == 2
MaxProcessed == 2
MaxHandles == 2
NKeys == 2
MaxGlobal == 1
MaxRuns == 2
NSpies == 7
MaxThrows == 1

(* The State signals of the host program, created in the root's body. *)
CountSig == 1
VisibleSig == 2
ListSig == 3
ProcessedSig == 4

Values == 0 .. MaxVal
Items == 1 .. NItems
Keys == 1 .. NKeys
Undefined == -1

----------------------------------------------------------------------------
(* Records *)

NoFn == [k |-> "none"]
NoMa == [items |-> <<>>, disposers |-> <<>>, indexes |-> <<>>, len |-> 0]

NodeRec(kind, fn, owner, stale) ==
  [kind |-> kind, fn |-> fn, stale |-> stale, owner |-> owner,
   owned |-> <<>>, cleanups |-> <<>>, sources |-> <<>>, updatedAt |-> 0,
   ma |-> NoMa, seen |-> <<>>, value |-> Undefined]

SigRec(v) == [value |-> v, observers |-> <<>>]

Event(e, x, y, z) == [e |-> e, x |-> x, y |-> y, z |-> z]

Emit(w, ev) == [w EXCEPT !.log = Append(@, ev)]

Truthy(v) == v # 0 /\ v # Undefined

----------------------------------------------------------------------------
(* solid-js: signals *)

(* createSignal(value): a new signal with no observers; w.ret is its id. *)
createSignal(w, v) ==
  [w EXCEPT !.sig = Append(@, SigRec(v)), !.ret = Len(w.sig) + 1]

(* readSignal: under a Listener the read subscribes it (sources and       *)
(* observers hold each other's slot); w.ret is the value.                  *)
readSignal(w, s) ==
  LET v == w.sig[s].value IN
  IF w.Listener = 0 THEN [w EXCEPT !.ret = v]
  ELSE LET l == w.Listener
           srcs == Append(w.node[l].sources,
                          [s |-> s, slot |-> Len(w.sig[s].observers) + 1])
       IN [w EXCEPT !.node[l].sources = srcs,
                    !.node[l].seen = Append(@, [s |-> s, v |-> v]),
                    !.sig[s].observers = Append(@, [n |-> l, slot |-> Len(srcs)]),
                    !.ret = v]

(* A host value is a record: [k |-> "val", v |-> x] is a plain value,     *)
(* [k |-> "none"] is undefined, anything else is a function.               *)
IsFunction(d) == d.k \notin {"val", "none"}

(* r(val): an accessor is returned as it is, a value is wrapped *)
r(val) == IF IsFunction(val) THEN val ELSE [k |-> "thunk", v |-> val.v]

(* the calls that re-enter the runtime or the interpreter go through Do,  *)
(* the dispatcher defined after the callbacks                              *)
RECURSIVE Do(_, _)

(* calling an accessor: a signal's reader, a derived accessor             *)
(* () => reader() === v, the accessor `$show` makes of its condition, or   *)
(* the thunk r() made; w.ret is the result                                 *)
condition(w, a) ==
  CASE a.k = "sig" -> readSignal(w, a.sref)
    [] a.k = "eq" -> LET w1 == readSignal(w, a.sref)
                     IN [w1 EXCEPT !.ret = IF w1.ret = a.v THEN 1 ELSE 0]
    [] a.k = "lwhen" -> Do(w, [op |-> "when", a |-> a])
    [] OTHER -> [w EXCEPT !.ret = a.v]

(* untrack's effect on the register; the caller restores it. *)
Untracked(w) == [w EXCEPT !.Listener = 0]

(* writeSignal's loop over the observers: each one not yet marked is      *)
(* queued in Updates (createComputed computations are pure) and marked.    *)
RECURSIVE markObservers(_, _, _)
markObservers(w, s, i) ==
  IF i > Len(w.sig[s].observers) THEN w
  ELSE LET o == w.sig[s].observers[i].n
           w1 == IF w.node[o].stale THEN w
                 ELSE [w EXCEPT !.Updates = Append(@, o)]
       IN markObservers([w1 EXCEPT !.node[o].stale = TRUE], s, i + 1)

(* the subscriptions of the run before are kept *)
cleanSourcesKept(w, n) == w

(* cleanNode's first loop: unsubscribe the node from every source,        *)
(* moving the source's last observer into the freed slot.                 *)
RECURSIVE cleanSources(_, _)
cleanSources(w, n) ==
  LET srcs == w.node[n].sources IN
  IF srcs = <<>> THEN w
  ELSE LET last == srcs[Len(srcs)]
           obs == w.sig[last.s].observers
           w1 == [w EXCEPT !.node[n].sources = SubSeq(srcs, 1, Len(srcs) - 1)]
       IN IF obs = <<>> THEN cleanSources(w1, n)
          ELSE LET o == obs[Len(obs)]
                   rest == SubSeq(obs, 1, Len(obs) - 1)
               IN IF last.slot <= Len(rest)
                  THEN cleanSources(
                         [w1 EXCEPT !.node[o.n].sources[o.slot].slot = last.slot,
                                    !.sig[last.s].observers =
                                       [rest EXCEPT ![last.slot] = o]], n)
                  ELSE cleanSources([w1 EXCEPT !.sig[last.s].observers = rest], n)

----------------------------------------------------------------------------
(* solid-js: owners, computations and the update queue.  The runtime and  *)
(* the user callbacks call each other: a call that re-enters (cleanNode,   *)
(* a computation's function, a cleanup, a callback) goes through Do, the   *)
(* dispatcher defined after the callbacks.                                 *)

RECURSIVE cleanOwned(_, _, _), runCleanups(_, _, _), runQueue(_, _),
          runAncestors(_, _, _), disposeAll(_, _, _), mapCreate(_, _, _, _),
          mapPrefix(_, _, _, _), mapSuffix(_, _, _), mapScan(_, _, _),
          mapOld(_, _, _), mapSet(_, _, _)

(* onCleanup(fn): appended to the current Owner's cleanups; without an    *)
(* Owner the callback is dropped (solid-js only warns).                    *)
onCleanup(w, c) ==
  IF w.Owner = 0 THEN w
  ELSE [w EXCEPT !.node[w.Owner].cleanups = Append(@, c)]

cleanOwned(w, owned, i) ==
  IF i = 0 THEN w
  ELSE cleanOwned(Do(w, [op |-> "cleanNode", n |-> owned[i]]), owned, i - 1)

runCleanups(w, n, i) ==
  IF i = 0 THEN w
  ELSE runCleanups(Do(w, [op |-> "runCleanup", c |-> w.node[n].cleanups[i]]),
                   n, i - 1)

(* the owned computations are cleaned last to first and forgotten *)
cleanChildren(w, n) ==
  [cleanOwned(w, w.node[n].owned, Len(w.node[n].owned)) EXCEPT !.node[n].owned = <<>>]

(* the cleanups are run last to first and kept *)
cleanCallbacksKept(w, n) ==
  [runCleanups(w, n, Len(w.node[n].cleanups)) EXCEPT !.node[n].stale = FALSE]

(* the cleanups are run last to first and forgotten; the node is clean *)
cleanCallbacks(w, n) ==
  [runCleanups(w, n, Len(w.node[n].cleanups))
     EXCEPT !.node[n].cleanups = <<>>, !.node[n].stale = FALSE]

(* the cleanups run before the owned computations are cleaned *)
cleanNodeCallbacksFirst(w, n) ==
  cleanChildren(cleanCallbacks([cleanSources(w, n) EXCEPT !.node[n].seen = <<>>], n), n)

(* cleanNode: unsubscribe (what the node had read is forgotten with its   *)
(* sources), clean the owned computations last to first, run the cleanups  *)
(* last to first, and leave the node clean (state 0).                      *)
cleanNode(w, n) ==
  cleanCallbacks(cleanChildren([cleanSources(w, n) EXCEPT !.node[n].seen = <<>>], n), n)

(* a dispose function that cleans nothing *)
disposeNothing(w, root) == w

(* the dispose function createRoot hands out: untrack(() => cleanNode(root)) *)
dispose(w, root) ==
  [Do(Untracked(w), [op |-> "cleanNode", n |-> root]) EXCEPT !.Listener = w.Listener]

(* runComputation's end: the registers are restored and the run dated *)
ranAt(w, n, time, owner, listener) ==
  [w EXCEPT !.Owner = owner, !.Listener = listener,
            !.node[n].updatedAt =
               IF @ = 0 \/ @ <= time THEN time ELSE @]

(* runComputation: fn runs with the node as Owner and Listener; both      *)
(* registers are restored afterwards.                                      *)
runComputation(w, n, time) ==
  ranAt(Do([w EXCEPT !.Owner = n, !.Listener = n, !.node[n].seen = <<>>],
           [op |-> "runFn", n |-> n]),
        n, time, w.Owner, w.Listener)

(* a re-run that does not clean the computation first *)
updateComputationDirty(w, n) == runComputation(w, n, w.ExecCount)

updateComputation(w, n) ==
  runComputation(Do(w, [op |-> "cleanNode", n |-> n]), n, w.ExecCount)

(* the new computation, registered under the current Owner *)
createComputation(w, fn) ==
  [w EXCEPT !.node =
     IF w.Owner = 0 THEN Append(@, NodeRec("comp", fn, w.Owner, TRUE))
     ELSE [Append(@, NodeRec("comp", fn, w.Owner, TRUE))
             EXCEPT ![w.Owner].owned = Append(@, Len(w.node) + 1)]]

(* createComputation + createComputed: the node is registered under the   *)
(* current Owner and run at once.                                          *)
createComputed(w, fn) ==
  updateComputation(createComputation(w, fn), Len(w.node) + 1)

runAncestors(w, anc, i) ==
  IF i = 0 THEN w
  ELSE runAncestors(IF w.node[anc[i]].stale THEN updateComputation(w, anc[i]) ELSE w,
                    anc, i - 1)

(* runTop's walk up the owners: the stale owners not yet updated in this  *)
(* pass, nearest first.                                                    *)
RECURSIVE staleOwners(_, _)
staleOwners(w, a) ==
  IF a = 0 THEN <<>>
  ELSE IF ~(w.node[a].updatedAt = 0 \/ w.node[a].updatedAt < w.ExecCount) THEN <<>>
  ELSE (IF w.node[a].stale THEN <<a>> ELSE <<>>) \o staleOwners(w, w.node[a].owner)

runTop(w, n) ==
  IF ~w.node[n].stale THEN w
  ELSE runAncestors(w, <<n>> \o staleOwners(w, w.node[n].owner),
                    1 + Len(staleOwners(w, w.node[n].owner)))

runQueue(w, i) ==
  IF i > Len(w.Updates) THEN w ELSE runQueue(runTop(w, w.Updates[i]), i + 1)

(* runUpdates + completeUpdates around writeSignal's marking: inside a    *)
(* running queue the observers are only queued; otherwise a new queue is   *)
(* opened and drained before the write returns.                            *)
writeSignal(w, s, v) ==
  IF w.sig[s].value = v THEN [w EXCEPT !.ret = v]
  ELSE IF w.sig[s].observers = <<>> THEN [w EXCEPT !.sig[s].value = v, !.ret = v]
  ELSE IF w.UpdatesOn
  THEN [markObservers([w EXCEPT !.sig[s].value = v], s, 1) EXCEPT !.ret = v]
  ELSE [runQueue(markObservers([w EXCEPT !.sig[s].value = v,
                                         !.UpdatesOn = TRUE, !.Updates = <<>>,
                                         !.EffectsOn = TRUE, !.ExecCount = @ + 1],
                               s, 1), 1)
          EXCEPT !.UpdatesOn = FALSE, !.Updates = <<>>,
                 !.EffectsOn = w.EffectsOn, !.ret = v]

----------------------------------------------------------------------------
(* solid-js: mapArray(list, mapFn), with mapFn taking (item, index).  Its *)
(* closure state (items, disposers, indexes, len) is the field `ma` of the *)
(* computation For creates for it.  Positions are 1-based here; the index  *)
(* signals hold the 0-based positions the code gives them.                 *)

SetAt(seq, pos, v) == IF pos <= Len(seq) THEN [seq EXCEPT ![pos] = v] ELSE Append(seq, v)

(* no disposer is called *)
disposeNone(w, d, i) == w

(* dispose(disposers): every disposer, first to last *)
disposeAll(w, d, i) ==
  IF i > Len(d) THEN w ELSE disposeAll(dispose(w, d[i]), d, i + 1)

(* mapper(disposer), run by createRoot for position j: the root is not    *)
(* registered in its owner's owned list; the item's index signal is made  *)
(* and mapFn is called under the root, untracked.                          *)
mapper(w, n, j, item) ==
  LET root == Len(w.node) + 1
      fresh == ~w.UpdatesOn
      w1 == [w EXCEPT !.node = Append(@, NodeRec("root", NoFn, w.Owner, FALSE)),
                      !.Owner = root, !.Listener = 0,
                      !.EffectsOn = TRUE,
                      !.ExecCount = IF fresh THEN @ + 1 ELSE @]
      w2 == [w1 EXCEPT !.node[n].ma.disposers = SetAt(@, j, root)]
      w3 == createSignal(w2, j - 1)
      idx == w3.ret
      w4 == [w3 EXCEPT !.node[n].ma.indexes = SetAt(@, j, idx)]
      w5 == Do(w4, [op |-> "call", f |-> w.node[n].fn.children, a |-> item, b |-> idx])
  IN [w5 EXCEPT !.Owner = w.Owner, !.Listener = w.Listener,
                !.EffectsOn = IF fresh THEN w.EffectsOn ELSE @]

(* fast path for new create: every position gets a new root *)
mapCreate(w, n, newItems, j) ==
  IF j > Len(newItems) THEN [w EXCEPT !.node[n].ma.len = Len(newItems)]
  ELSE mapCreate(mapper([w EXCEPT !.node[n].ma.items = SetAt(@, j, newItems[j])],
                        n, j, newItems[j]),
                 n, newItems, j + 1)

(* skip common prefix: the first position at which the lists differ *)
mapPrefix(items, newItems, start, end) ==
  IF start <= end /\ items[start] = newItems[start]
  THEN mapPrefix(items, newItems, start + 1, end)
  ELSE start

(* common suffix: m carries end, newEnd and temp (position -> the root   *)
(* and index setter kept for it)                                           *)
mapSuffix(ma, newItems, m) ==
  IF m.end >= m.start /\ m.newEnd >= m.start /\ ma.items[m.end] = newItems[m.newEnd]
  THEN mapSuffix(ma, newItems,
         [m EXCEPT !.temp = (m.newEnd :> [d |-> ma.disposers[m.end],
                                          s |-> ma.indexes[m.end]]) @@ @,
                   !.end = @ - 1, !.newEnd = @ - 1])
  ELSE m

(* 0) the map of the new positions, scanned backwards: newIndices[item]   *)
(* is the first position of item, newIndicesNext[j] the next one (0: none)*)
mapScan(newItems, m, j) ==
  IF j < m.start THEN m
  ELSE LET item == newItems[j]
           i == m.newIndices[item]
       IN mapScan(newItems,
                  [m EXCEPT !.newIndicesNext = (j :> (IF i = 0 THEN -1 ELSE i)) @@ @,
                            !.newIndices[item] = j],
                  j - 1)

(* 1) every old item between the prefix and the suffix is kept for its    *)
(* next free new position, or its root is disposed                        *)
mapOld(w, n, x) ==
  LET m == x.m
      ma == w.node[n].ma
  IN IF x.i > m.end THEN [w |-> w, m |-> m]
     ELSE LET item == ma.items[x.i]
              j == m.newIndices[item]
          IN IF j # 0 /\ j # -1
             THEN mapOld(w, n,
                    [i |-> x.i + 1,
                     m |-> [m EXCEPT !.temp = (j :> [d |-> ma.disposers[x.i],
                                                     s |-> ma.indexes[x.i]]) @@ @,
                                     !.newIndices[item] = m.newIndicesNext[j]]])
             ELSE mapOld(dispose(w, ma.disposers[x.i]), n, [i |-> x.i + 1, m |-> m])

(* the kept roots take their positions and no index setter is called *)
mapSetSkip(w, n, x) ==
  IF x.j > Len(x.newItems) THEN w
  ELSE IF x.j \in DOMAIN x.temp
  THEN mapSet([w EXCEPT !.node[n].ma.disposers = SetAt(@, x.j, x.temp[x.j].d),
                        !.node[n].ma.indexes = SetAt(@, x.j, x.temp[x.j].s)],
              n, [x EXCEPT !.j = @ + 1])
  ELSE mapSet(mapper(w, n, x.j, x.newItems[x.j]), n, [x EXCEPT !.j = @ + 1])

(* 2) every new position from start on takes the kept root, and its index *)
(* setter is called with the position, or gets a new root                  *)
mapSet(w, n, x) ==
  IF x.j > Len(x.newItems) THEN w
  ELSE IF x.j \in DOMAIN x.temp
  THEN LET w1 == [w EXCEPT !.node[n].ma.disposers = SetAt(@, x.j, x.temp[x.j].d),
                           !.node[n].ma.indexes = SetAt(@, x.j, x.temp[x.j].s)]
       IN mapSet(writeSignal(w1, x.temp[x.j].s, x.j - 1), n, [x EXCEPT !.j = @ + 1])
  ELSE mapSet(mapper(w, n, x.j, x.newItems[x.j]), n, [x EXCEPT !.j = @ + 1])

(* the scan starts at the last new position before the common suffix *)
mapScanned(newItems, m) == mapScan(newItems, m, m.newEnd)

(* the map of the new positions between the common prefix and suffix *)
mapIndices(ma, newItems, start) ==
  mapScanned(newItems,
             mapSuffix(ma, newItems,
                       [start |-> start, end |-> ma.len, newEnd |-> Len(newItems),
                        temp |-> <<>>,
                        newIndices |-> [it \in Items |-> 0],
                        newIndicesNext |-> <<>>]))

(* step 2 over what step 1 kept *)
mapMoved(x, n, newItems) ==
  mapSet(x.w, n, [j |-> x.m.start, newItems |-> newItems, temp |-> x.m.temp])

(* items = newItems.slice(0), len = newLen *)
mapDone(w, n, newItems) ==
  [w EXCEPT !.node[n].ma.len = Len(newItems), !.node[n].ma.items = newItems]

(* the general path of mapArray over the old and the new list *)
mapReconcile(w, n, ma, newItems) ==
  mapDone(mapMoved(mapOld(w, n,
                          [i |-> mapPrefix(ma.items, newItems, 1,
                                           IF ma.len < Len(newItems) THEN ma.len
                                           ELSE Len(newItems)),
                           m |-> mapIndices(ma, newItems,
                                            mapPrefix(ma.items, newItems, 1,
                                                      IF ma.len < Len(newItems)
                                                      THEN ma.len
                                                      ELSE Len(newItems)))]),
                   n, newItems),
          n, newItems)

(* no fast path and no reuse: every root is disposed, every item mapped anew *)
mapListNoReuse(w, n) ==
  IF w.ret.elems = <<>>
  THEN [disposeAll(w, w.node[n].ma.disposers, 1) EXCEPT !.node[n].ma = NoMa]
  ELSE mapCreate([disposeAll(w, w.node[n].ma.disposers, 1) EXCEPT !.node[n].ma = NoMa],
                 n, w.ret.elems, 1)

(* mapArray once the list is read (w.ret): the fast path for an empty     *)
(* list, the fast path for new create, or the general path                 *)
mapList(w, n) ==
  IF w.ret.elems = <<>>
  THEN IF w.node[n].ma.len # 0
       THEN [disposeAll(w, w.node[n].ma.disposers, 1) EXCEPT !.node[n].ma = NoMa]
       ELSE w
  ELSE IF w.node[n].ma.len = 0 THEN mapCreate(w, n, w.ret.elems, 1)
  ELSE mapReconcile(w, n, w.node[n].ma, w.ret.elems)

(* the function mapArray returns: reads the list (tracked), then          *)
(* reconciles untracked                                                    *)
mapped(w, n) ==
  [mapList(Untracked(condition(w, w.node[n].fn.each)), n)
     EXCEPT !.Listener = w.Listener]

----------------------------------------------------------------------------
(* The wrappers of the library *)

(* State(value): createSignal *)
State(w, v) == createSignal(w, v)

(* every computation that read s on its latest run read the value s holds *)
Observed(w, s) ==
  \A n \in 1 .. Len(w.node) :
    \A j \in 1 .. Len(w.node[n].seen) :
      w.node[n].seen[j].s = s => w.node[n].seen[j].v = w.sig[s].value

(* what holds when a setter returns: 2 when the reader yields v and every *)
(* computation has observed it, 1 when only the reader yields v, else 0   *)
Returned(w, s, v) ==
  IF w.sig[s].value # v THEN 0 ELSE IF Observed(w, s) THEN 2 ELSE 1

(* the value a setter call writes: a function argument is applied to the *)
(* current value                                                           *)
NewValue(w, s, u) == IF u.k = "inc" THEN w.sig[s].value + 1 ELSE u.v

(* the log keeps, for each return of a setter, what held by then and      *)
(* whether the call was made inside a running update queue                 *)
SetterReturn(w, s, v, nested) ==
  Emit(w, Event("set", s, Returned(w, s, v), IF nested THEN 1 ELSE 0))

(* a setter that stores the value and notifies nobody *)
SetterQuiet(w, s, u) ==
  SetterReturn([w EXCEPT !.sig[s].value = NewValue(w, s, u),
                          !.ret = NewValue(w, s, u)], s,
               NewValue(w, s, u), w.UpdatesOn)

(* the setter createSignal returns *)
Setter(w, s, u) ==
  SetterReturn(writeSignal(w, s, NewValue(w, s, u)), s, NewValue(w, s, u), w.UpdatesOn)

(* createEffect in place of createComputed: under a root's body the first *)
(* run waits in the Effects queue                                          *)
EffectDeferred(w, fn) ==
  LET c == Len(w.node) + 1
      w1 == [w EXCEPT !.node = Append(@, NodeRec("comp", fn, w.Owner, TRUE))]
  IN IF w.Owner = 0 THEN w1 ELSE [w1 EXCEPT !.node[w.Owner].owned = Append(@, c)]

(* Effect(fn): createComputed(fn) *)
Effect(w, fn) == createComputed(w, fn)

(* the callback is registered nowhere *)
CleanupDropped(w, fn) == w

(* Cleanup(fn): onCleanup(fn) *)
Cleanup(w, fn) == onCleanup(w, fn)

(* Show(when, children, fallback): one computation reading the condition *)
(* and calling the branch it selects                                       *)
Show(w, when, children, fallback) ==
  createComputed(w, [k |-> "show", condition |-> r(when),
                     children |-> children, fallback |-> fallback])

(* what a run of Show's computation logs: the condition's value and which *)
(* of the two branches are functions                                       *)
ShowRun(c, f) ==
  Event("show", c, IF IsFunction(f.children) THEN 1 ELSE 0,
        IF IsFunction(f.fallback) THEN 1 ELSE 0)

(* calling a branch of Show *)
Branched(w, fn, a) == Do(w, [op |-> "call", f |-> fn, a |-> a, b |-> Undefined])

(* Show's computation once the condition is read (w.ret) *)
ShowBranch(w, f) ==
  IF Truthy(w.ret)
  THEN IF IsFunction(f.children)
       THEN IF f.children.length > 0
            THEN Branched(Emit(w, ShowRun(w.ret, f)), f.children, w.ret)
            ELSE Branched(Emit(w, ShowRun(w.ret, f)), f.children, Undefined)
       ELSE Emit(w, ShowRun(w.ret, f))
  ELSE IF IsFunction(f.fallback)
       THEN Branched(Emit(w, ShowRun(w.ret, f)), f.fallback, Undefined)
       ELSE Emit(w, ShowRun(w.ret, f))

(* the fallback is called on every run *)
ShowFnBoth(w, f) ==
  IF IsFunction(f.fallback)
  THEN Branched(ShowBranch(condition(w, f.condition), [f EXCEPT !.fallback = NoFn]),
                f.fallback, Undefined)
  ELSE ShowBranch(condition(w, f.condition), f)

(* the branch is called with no Owner: what it registers is dropped *)
ShowFnUnowned(w, f) ==
  [ShowBranch([condition(w, f.condition) EXCEPT !.Owner = 0], f)
     EXCEPT !.Owner = w.Owner]

(* the branch is called untracked: what it reads is no dependency *)
ShowFnUntracked(w, f) ==
  [ShowBranch(Untracked(condition(w, f.condition)), f) EXCEPT !.Listener = w.Listener]

(* the function Show gives to createComputed *)
ShowFn(w, f) == ShowBranch(condition(w, f.condition), f)

(* For(each, children): mapArray's cleanup is registered under the caller's *)
(* Owner, then the computation that runs the mapping is created             *)
For(w, each, children) ==
  LET c == Len(w.node) + 1
      w1 == onCleanup(w, [k |-> "disposers", nref |-> c])
  IN createComputed(w1, [k |-> "for", each |-> r(each), children |-> children])


(* nothing is cleared *)
resetGlobalStatesNoop(w) == w

(* the registered signals are emptied in place and stay registered *)
resetGlobalStatesInPlace(w) ==
  [w EXCEPT !.sig = [s \in DOMAIN @ |->
                       IF \E k \in Keys : w.globalSignals[k] = s
                       THEN [@[s] EXCEPT !.value = 0] ELSE @[s]]]

(* globalSignals.clear() *)
resetGlobalStates(w) == [w EXCEPT !.globalSignals = [k \in Keys |-> 0]]

(* a given initial replaces the key's signal *)
GlobalOverwrite(w, key, initial) ==
  IF initial = Undefined
  THEN IF w.globalSignals[key] = 0 THEN [w EXCEPT !.err = "not found"]
       ELSE [w EXCEPT !.ret = w.globalSignals[key]]
  ELSE LET w1 == createSignal(w, initial)
       IN [w1 EXCEPT !.globalSignals[key] = w1.ret]

(* no check of initial: an absent key is always registered *)
GlobalDefault(w, key, initial) ==
  IF w.globalSignals[key] = 0
  THEN LET w1 == createSignal(w, initial)
       IN [w1 EXCEPT !.globalSignals[key] = w1.ret]
  ELSE [w EXCEPT !.ret = w.globalSignals[key]]

(* Global(key, initial): the key's signal, made from initial when the key *)
(* is absent; w.ret is the signal, w.err the error thrown                  *)
Global(w, key, initial) ==
  IF w.globalSignals[key] = 0
  THEN IF initial = Undefined
       THEN [w EXCEPT !.err = "not found"]
       ELSE LET w1 == createSignal(w, initial)
            IN [w1 EXCEPT !.globalSignals[key] = w1.ret]
  ELSE [w EXCEPT !.ret = w.globalSignals[key]]

----------------------------------------------------------------------------
(* The interpreter *)

(* A rule is a literal [lit |-> value], an array of rules [arr |-> <<..>>] *)
(* or an operation [op |-> name, args |-> <<rules>>].  A value is a number  *)
(* or an array [k |-> "val"], a string [k |-> "str"], null, undefined      *)
(* ([k |-> "none"]), a lazy node [k |-> "lazy"], a getter carrying its      *)
(* setter [k |-> "sig"], a plain accessor [k |-> "acc"] or a host function  *)
(* [k |-> "spy"].                                                           *)
Val(n) == [k |-> "val", v |-> n]
Null == [k |-> "null"]
Num(n) == [lit |-> Val(n)]
Str(s) == [lit |-> [k |-> "str", s |-> s]]
Lazy(rule) == [lit |-> [k |-> "lazy", rule |-> rule]]
Arr(rules) == [arr |-> rules]
Op(op, args) == [op |-> op, args |-> args]
Var(name) == Op("var", <<Str(name)>>)

(* isLazyNode(node) *)
isLazyNode(v) == v.k = "lazy"

(* the argument at position i of a call, undefined when it is not given *)
Arg(args, i) == IF i <= Len(args) THEN args[i] ELSE NoFn

(* a number as the log keeps it *)
Shown(v) == IF v.k = "val" THEN v.v ELSE Undefined

(* getter.set = set; return getter *)
AsRef(w) == IF w.err # "" THEN w ELSE [w EXCEPT !.res = [k |-> "sig", sref |-> w.ret]]

(* the value a library call returned becomes the operation's result *)
AsVal(w) == [w EXCEPT !.res = Val(w.ret)]

(* `$state` that makes its signal from 0 *)
OpStateZero(w, initialValue) == AsRef(State(w, 0))

(* the `$state` operation: Solid.State(initialValue) *)
OpState(w, initialValue) == AsRef(State(w, initialValue.v))

(* the `$global` operation: Solid.Global(key, initial); the getter it     *)
(* returns carries the setter, so w.ret stands for both                    *)
OpGlobal(w, key, initial) == AsRef(Global(w, key, initial))

(* `$set` that calls no setter *)
OpSetNothing(w, ref, value) == [w EXCEPT !.res = NoFn]

(* the `$set` operation: ref.set(value) when ref carries a setter *)
OpSet(w, ref, value) ==
  IF ref.k = "sig" THEN AsVal(Setter(w, ref.sref, [k |-> "val", v |-> value.v]))
  ELSE [w EXCEPT !.res = NoFn]

(* `$effect` that rejects a body that is not a lazy node *)
OpEffectStrict(w, lazyOrValue) ==
  IF isLazyNode(lazyOrValue)
  THEN [Effect(w, [k |-> "lfx", body |-> lazyOrValue, ctx |-> w.currentContext])
          EXCEPT !.res = NoFn]
  ELSE [w EXCEPT !.err = "not lazy"]

(* the `$effect` operation: Effect over the rule of the lazy node *)
OpEffect(w, lazyOrValue) ==
  [Effect(w, [k |-> "lfx", body |-> lazyOrValue, ctx |-> w.currentContext])
     EXCEPT !.res = NoFn]

(* the `$cleanup` operation: Cleanup over the rule of the lazy node *)
OpCleanup(w, lazyNode) ==
  [Cleanup(w, [k |-> "lclean", body |-> lazyNode, ctx |-> w.currentContext])
     EXCEPT !.res = NoFn]

(* `$show` with the two branches exchanged *)
OpShowSwapped(w, when, childrenLazy, fallbackLazy) ==
  [Show(w, [k |-> "lwhen", when |-> when, ctx |-> w.currentContext],
        [k |-> "lbranch", body |-> fallbackLazy, ctx |-> w.currentContext, length |-> 0],
        [k |-> "lbranch", body |-> childrenLazy, ctx |-> w.currentContext, length |-> 0])
     EXCEPT !.res = NoFn]

(* the `$show` operation: Show over three closures of the context *)
OpShow(w, when, childrenLazy, fallbackLazy) ==
  [Show(w, [k |-> "lwhen", when |-> when, ctx |-> w.currentContext],
        [k |-> "lbranch", body |-> childrenLazy, ctx |-> w.currentContext, length |-> 0],
        [k |-> "lbranch", body |-> fallbackLazy, ctx |-> w.currentContext, length |-> 0])
     EXCEPT !.res = NoFn]

(* `$for` whose child closure captures no context *)
OpForBare(w, list, childLazy) ==
  [For(w, list, [k |-> "lchild", body |-> childLazy, ctx |-> <<>>, length |-> 2])
     EXCEPT !.res = NoFn]

(* the `$for` operation: For over the list and a closure of the context *)
OpFor(w, list, childLazy) ==
  [For(w, list, [k |-> "lchild", body |-> childLazy, ctx |-> w.currentContext,
                 length |-> 2])
     EXCEPT !.res = NoFn]

(* jsonLogic's `var`: the name looked up in the data, null when absent *)
OpVar(w, a) ==
  [w EXCEPT !.res = IF a.s \in DOMAIN w.currentContext THEN w.currentContext[a.s]
                    ELSE Null]

(* the `call` operation: a host function is called with the arguments, a  *)
(* getter is read, anything else yields undefined                          *)
OpCall(w, args) ==
  CASE args[1].k = "spy" ->
         [Emit(w, Event("spy", args[1].id, Shown(Arg(args, 2)), Shown(Arg(args, 3))))
            EXCEPT !.res = NoFn]
    [] args[1].k \in {"sig", "acc"} -> AsVal(readSignal(w, args[1].sref))
    [] args[1].k = "lam" ->
         Do(w, [op |-> "call", f |-> args[1], a |-> Shown(Arg(args, 2)),
                b |-> Shown(Arg(args, 3))])
    [] OTHER -> [w EXCEPT !.res = NoFn]

(* the `seq` operation: the last of the evaluated rules *)
OpSeq(w, rules) == [w EXCEPT !.res = Arg(rules, Len(rules))]

(* `lambda` whose function captures no context *)
OpLambdaBare(w, rule) ==
  [w EXCEPT !.res = [k |-> "lam", body |-> rule, ctx |-> <<>>, length |-> 0]]

(* the `lambda` operation: a function closing over the rule and the       *)
(* context of its definition; it declares a rest parameter only            *)
OpLambda(w, rule) ==
  [w EXCEPT !.res = [k |-> "lam", body |-> rule, ctx |-> w.currentContext,
                     length |-> 0]]

RECURSIVE apply(_, _), exec(_, _, _), applyArgs(_, _, _, _)

(* `def` that writes the name into the enclosing context: the register,   *)
(* which holds that context, keeps the binding after the rule has run      *)
OpDefInPlace(w, name, value, rule) ==
  [exec(w, [lit |-> rule], (name.s :> value) @@ w.currentContext)
     EXCEPT !.currentContext = (name.s :> value) @@ w.currentContext]

(* the `def` operation: the third argument, already evaluated, is given   *)
(* to exec with the name bound                                             *)
OpDef(w, name, value, rule) ==
  exec(w, [lit |-> rule], (name.s :> value) @@ w.currentContext)

(* operations[op].apply(data, values); the values are in w.res *)
operate(w, op) ==
  IF w.err # "" THEN w
  ELSE CASE op = "var" -> OpVar(w, w.res[1])
         [] op = "call" -> OpCall(w, w.res)
         [] op = "$state" -> OpState(w, w.res[1])
         [] op = "$global" -> OpGlobal(w, w.res[1].v, Shown(Arg(w.res, 2)))
         [] op = "$set" -> OpSet(w, w.res[1], Arg(w.res, 2))
         [] op = "$effect" -> OpEffect(w, w.res[1])
         [] op = "$cleanup" -> OpCleanup(w, w.res[1])
         [] op = "$show" -> OpShow(w, w.res[1], Arg(w.res, 2), Arg(w.res, 3))
         [] op = "$for" -> OpFor(w, w.res[1], Arg(w.res, 2))
         [] op = "def" -> OpDef(w, w.res[1], w.res[2], Arg(w.res, 3))
         [] op = "seq" -> OpSeq(w, w.res)
         [] op = "lambda" -> OpLambda(w, w.res[1])

(* the value of one more argument is kept *)
applyNext(w, args, i, acc) == applyArgs(w, args, i + 1, Append(acc, w.res))

(* values.map(val => jsonLogic.apply(val, data)): first to last *)
applyArgs(w, args, i, acc) ==
  IF w.err # "" THEN w
  ELSE IF i > Len(args) THEN [w EXCEPT !.res = acc]
  ELSE applyNext(apply(w, args[i]), args, i, acc)

(* the array of the values *)
arrayOf(w) ==
  IF w.err # "" THEN w
  ELSE [w EXCEPT !.res = Val([ref |-> 1, elems |-> [i \in 1 .. Len(w.res) |-> w.res[i].v]])]

(* jsonLogic.apply(logic, data), the data being the current context: an   *)
(* array is mapped, what is not logic (a primitive, a lazy node) is        *)
(* returned, and an operation is applied to its evaluated arguments        *)
apply(w, logic) ==
  IF "arr" \in DOMAIN logic THEN arrayOf(applyArgs(w, logic.arr, 1, <<>>))
  ELSE IF "lit" \in DOMAIN logic THEN [w EXCEPT !.res = logic.lit]
  ELSE operate(applyArgs(w, logic.args, 1, <<>>), logic.op)

(* an exit that leaves the register as the call set it *)
restoredNot(w, prevContext) == w

(* the finally block of exec *)
restored(w, prevContext) == [w EXCEPT !.currentContext = prevContext]

(* exec(logic, data): the register holds data while the rule is applied   *)
(* and is restored in the finally block; a lazy node is unwrapped           *)
exec(w, logic, data) ==
  IF "lit" \in DOMAIN logic /\ isLazyNode(logic.lit)
  THEN restored(exec([w EXCEPT !.currentContext = data], logic.lit.rule, data),
                w.currentContext)
  ELSE restored(apply([w EXCEPT !.currentContext = data], logic), w.currentContext)

(* runLogic(json, initialData): createRoot((dispose) => exec(...)); the   *)
(* root is the Owner while the rule runs, and createRoot restores the      *)
(* registers in its finally block                                          *)
runLogic(w, json, initialData) ==
  LET root == Len(w.node) + 1
      w1 == [w EXCEPT !.node = Append(@, NodeRec("root", NoFn, w.Owner, FALSE)),
                      !.Owner = root, !.Listener = 0, !.EffectsOn = TRUE,
                      !.ExecCount = IF w.UpdatesOn THEN @ ELSE @ + 1]
      w2 == exec(w1, json, initialData)
  IN [w2 EXCEPT !.Owner = w.Owner, !.Listener = w.Listener,
                !.EffectsOn = w.EffectsOn]

----------------------------------------------------------------------------
(* The host program: the callbacks of the tests and of the examples *)

(* Effect(() => { result = s() }) *)
EffectFn(s) == [k |-> "effect", sref |-> s]

(* a Show branch that acquires a resource and registers its release *)
Branch(name, length) == [k |-> "branch", name |-> name, length |-> length]

(* a cleanup that logs one line *)
Tell(e) == [k |-> "tell", e |-> e]

(* ProcessingEngine as the true branch of Show: logs, registers a cleanup, *)
(* maps the tasks and registers the cleanup that logs the halt             *)
Engine == [k |-> "engine", length |-> 0]

(* TaskMonitor as the item callback of For; the second task is the one of *)
(* high priority, and its alert holds a resource until it is released      *)
TaskFn == [k |-> "task", length |-> 2]
Priority(item) == IF item = 2 THEN 1 ELSE 0

(* the item callback: logs `${item}-${index()}`, starts an Effect on the  *)
(* index and registers a cleanup that logs and counts the removal          *)
ItemFn == [k |-> "item", length |-> 2]

(* a callback that reads the counter in its body, logs what it read and   *)
(* then holds a resource until its cleanup: as a branch of Show            *)
(* (() => { seen = count(); ... }) the resource has the branch's name, as   *)
(* the child of For ((item, index) => { seen = count(); ... }) the item's   *)
Peek(name, length) == [k |-> "peek", name |-> name, length |-> length]
peek(w, f, a) ==
  Do(Emit(w, Event("peek", IF f.length = 2 THEN f.name + a ELSE f.name, w.ret, 0)),
     [op |-> "call", f |-> Branch(IF f.length = 2 THEN f.name + a ELSE f.name, 0),
      a |-> Undefined, b |-> Undefined])

call(w, f, a, b) ==
  CASE f.k = "branch" ->
         LET w1 == Emit(w, Event("enter", f.name, a, Cardinality(w.live)))
             w2 == [w1 EXCEPT !.live = @ \cup {f.name}]
         IN Cleanup(w2, [k |-> "release", name |-> f.name])
    [] f.k = "item" ->
         LET w1 == readSignal(w, b)
             w2 == Emit(w1, Event("child", a, w1.ret, 0))
             w3 == Effect(w2, [k |-> "monitor", item |-> a, sref |-> b])
         IN Cleanup(w3, [k |-> "remove", item |-> a])
    [] f.k = "engine" ->
         Cleanup(For(Cleanup(Emit(w, Event("started", 0, 0, 0)), Tell("armed")),
                     [k |-> "sig", sref |-> ListSig], TaskFn),
                 Tell("halted"))
    [] f.k = "task" ->
         Cleanup(Show(Effect(w, [k |-> "monitor", item |-> a, sref |-> b]),
                      [k |-> "val", v |-> Priority(a)], Branch(a, 0), NoFn),
                 [k |-> "remove", item |-> a])
    [] f.k = "lbranch" ->
         IF isLazyNode(f.body) THEN exec(w, f.body.rule, f.ctx) ELSE w
    [] f.k = "peek" -> peek(readSignal(w, CountSig), f, a)
    [] f.k = "lam" ->
         exec(w, IF isLazyNode(f.body) THEN f.body.rule ELSE [lit |-> f.body], f.ctx)
    [] f.k = "lchild" ->
         IF isLazyNode(f.body)
         THEN exec(w, f.body.rule,
                   ("item" :> Val(a)) @@ ("index" :> [k |-> "acc", sref |-> b]) @@ f.ctx)
         ELSE w
    [] OTHER -> w

(* Effect((last) => (visible() ? count() : last)): the counter is read   *)
(* only while the flag is truthy; what the function returns is the value   *)
(* of the computation, handed to its next run                              *)
GateFn == [k |-> "gate"]
gated(w, n) == [Emit(w, Event("gate", 1, w.ret, 0)) EXCEPT !.node[n].value = w.ret]
gate(w, n) ==
  IF Truthy(w.ret) THEN gated(readSignal(w, CountSig), n)
  ELSE Emit(w, Event("gate", 0, w.node[n].value, 0))

(* Effect(() => { const p = processed(); if (p === 1) setProcessed(p => p + 1) }): *)
(* the effect writes the signal it has read; its run logs where it begins  *)
(* and where it ends                                                       *)
BumpFn == [k |-> "bump"]
bumpEnd(w, p) == Emit(w, Event("end", p, 0, 0))
bumpWrite(w, p) ==
  bumpEnd(IF p = 1 THEN Do(w, [op |-> "set", s |-> ProcessedSig, u |-> [k |-> "inc"]])
          ELSE w, p)
bump(w) == bumpWrite(Emit(w, Event("begin", w.ret, 0, 0)), w.ret)

(* the Poller of the README, its url a signal:                             *)
(* Effect(() => { const id = setInterval(poll(url()), 1000);               *)
(*                Cleanup(() => clearInterval(id)) })                      *)
PollerFn == [k |-> "poller"]
PollerId == NItems + 1
polled(w) == Do(w, [op |-> "call", f |-> Branch(PollerId, 0), a |-> w.ret, b |-> Undefined])

runFn(w, n) ==
  LET f == w.node[n].fn IN
  CASE f.k = "effect" ->
         LET w1 == readSignal(w, f.sref)
         IN Emit(w1, Event("effect", f.sref, w1.ret, 0))
    [] f.k = "monitor" ->
         LET w1 == readSignal(w, f.sref)
         IN Emit(w1, Event("monitor", f.item, w1.ret, 0))
    [] f.k = "show" -> ShowFn(w, f)
    [] f.k = "for" -> mapped(w, n)
    [] f.k = "lfx" -> IF isLazyNode(f.body) THEN exec(w, f.body.rule, f.ctx) ELSE w
    [] f.k = "gate" -> gate(readSignal(w, VisibleSig), n)
    [] f.k = "bump" -> bump(readSignal(w, ProcessedSig))
    [] f.k = "poller" -> polled(readSignal(w, CountSig))
    [] OTHER -> w

runCleanup(w, c) ==
  CASE c.k = "release" ->
         Emit([w EXCEPT !.live = @ \ {c.name}],
              Event("cleanup", c.name, IF c.name \in w.live THEN 1 ELSE 0, 0))
    [] c.k = "remove" ->
         Setter(Emit(w, Event("remove", c.item, 0, 0)), ProcessedSig, [k |-> "inc"])
    [] c.k = "tell" -> Emit(w, Event(c.e, 0, 0, 0))
    [] c.k = "disposers" -> disposeAll(w, w.node[c.nref].ma.disposers, 1)
    [] c.k = "lclean" -> IF isLazyNode(c.body) THEN exec(w, c.body.rule, c.ctx) ELSE w
    [] OTHER -> w

(* what `if (c)` makes of the value the accessor returned *)
tested(w) ==
  [w EXCEPT !.ret = IF w.res.k = "val" THEN w.res.v
                    ELSE IF w.res.k \in {"null", "none"} THEN 0 ELSE 1]

(* the accessor `$show` gives to Show:                                    *)
(* () => (isLazyNode(when) ? exec(when.rule, ctx) : when)                  *)
whenAccessor(w, a) ==
  IF isLazyNode(a.when) THEN tested(exec(w, a.when.rule, a.ctx))
  ELSE tested([w EXCEPT !.res = a.when])

(* the re-entrant calls of the runtime *)
Do(w, c) ==
  CASE c.op = "cleanNode" -> cleanNode(w, c.n)
    [] c.op = "runFn" -> runFn(w, c.n)
    [] c.op = "runCleanup" -> runCleanup(w, c.c)
    [] c.op = "call" -> call(w, c.f, c.a, c.b)
    [] c.op = "when" -> whenAccessor(w, c.a)
    [] c.op = "set" -> Setter(w, c.s, c.u)

----------------------------------------------------------------------------
(* Between two calls: the objects no reference reaches are dropped and the *)
(* ids of the others are compacted in order (garbage collection; the ids  *)
(* stand for object identity only).  ExecCount is unbounded in the code;   *)
(* only its order against each updatedAt is read, and between two calls    *)
(* every updatedAt is older than the next pass.                            *)

DescNodes(d) == IF "nref" \in DOMAIN d THEN {d.nref} ELSE {}

(* the fields of a function's closure that hold functions or values, and *)
(* the captured context, which maps names to values                        *)
Closed == {"condition", "each", "children", "fallback", "when", "body"}

RECURSIVE DescSigs(_)
DescSigs(d) ==
  (IF "sref" \in DOMAIN d THEN {d.sref} ELSE {})
  \cup UNION {DescSigs(d[f]) : f \in DOMAIN d \cap Closed}
  \cup (IF "ctx" \in DOMAIN d THEN UNION {DescSigs(d.ctx[x]) : x \in DOMAIN d.ctx}
        ELSE {})

Range(f) == {f[i] : i \in DOMAIN f}

NodeRefs(nd) ==
  (Range(nd.owned) \cup Range(nd.ma.disposers) \cup {nd.owner}
   \cup UNION {DescNodes(c) : c \in Range(nd.cleanups)} \cup DescNodes(nd.fn)) \ {0}

SigRefs(nd) ==
  {x.s : x \in Range(nd.sources)} \cup Range(nd.ma.indexes) \cup DescSigs(nd.fn)
  \cup UNION {DescSigs(c) : c \in Range(nd.cleanups)}

RECURSIVE Reach(_, _, _)
(* one more step of reachability, or the fixed point *)
Grown(w, N, S, N2, S2) ==
  IF N2 = N /\ S2 = S THEN [N |-> N, S |-> S] ELSE Reach(w, N2, S2)

Reach(w, N, S) ==
  Grown(w, N, S,
        N \cup UNION {NodeRefs(w.node[n]) : n \in N}
          \cup UNION {{o.n : o \in Range(w.sig[s].observers)} : s \in S},
        S \cup UNION {SigRefs(w.node[n]) : n \in N})

Rank(X, x) == Cardinality({y \in X : y <= x})
Nth(X, i) == CHOOSE x \in X : Rank(X, x) = i

RECURSIVE RemapDesc(_, _, _)
RemapDesc(d, nm, sm) ==
  [f \in DOMAIN d |->
     IF f = "nref" THEN nm[d[f]]
     ELSE IF f = "sref" THEN sm[d[f]]
     ELSE IF f \in Closed THEN RemapDesc(d[f], nm, sm)
     ELSE IF f = "ctx" THEN [x \in DOMAIN d[f] |-> RemapDesc(d[f][x], nm, sm)]
     ELSE d[f]]

FreshArray(v) == IF "ref" \in DOMAIN v THEN [v EXCEPT !.ref = 0] ELSE v

(* a computation that is kept, under the new numbering *)
MovedNode(nd, nm, sm) ==
  [nd EXCEPT !.owner = nm[@],
             !.owned = [k \in DOMAIN @ |-> nm[@[k]]],
             !.fn = RemapDesc(@, nm, sm),
             !.cleanups = [k \in DOMAIN @ |-> RemapDesc(@[k], nm, sm)],
             !.sources = [k \in DOMAIN @ |-> [@[k] EXCEPT !.s = sm[@]]],
             !.seen = [k \in DOMAIN @ |->
                         [s |-> sm[@[k].s],
                          v |-> IF @[k].s = ListSig THEN FreshArray(@[k].v)
                                ELSE @[k].v]],
             !.ma.disposers = [k \in DOMAIN @ |-> nm[@[k]]],
             !.ma.indexes = [k \in DOMAIN @ |-> sm[@[k]]],
             !.updatedAt = 0]

(* a signal that is kept, under the new numbering *)
MovedSig(sg, isList, nm) ==
  [value |-> IF isList THEN FreshArray(sg.value) ELSE sg.value,
   observers |-> [k \in DOMAIN sg.observers |-> [sg.observers[k] EXCEPT !.n = nm[@]]]]

(* what is kept, renumbered in order; ret is the map of the signals *)
Renumber(w, N, S, nm, sm) ==
  [w EXCEPT !.node = [i \in 1 .. Cardinality(N) |-> MovedNode(w.node[Nth(N, i)], nm, sm)],
            !.sig = [i \in 1 .. Cardinality(S) |->
                       MovedSig(w.sig[Nth(S, i)], Nth(S, i) = ListSig, nm)],
            !.globalSignals = [k \in DOMAIN @ |-> sm[@[k]]],
            !.runs = [i \in DOMAIN @ |-> [@[i] EXCEPT !.root = nm[@],
                                                       !.res = RemapDesc(@, nm, sm)]],
            !.ret = sm]

Compact(w, N, S) ==
  Renumber(w, N, S,
           [i \in 0 .. Len(w.node) |-> IF i = 0 THEN 0 ELSE Rank(N, i)],
           [i \in 0 .. Len(w.sig) |-> IF i = 0 THEN 0 ELSE Rank(S, i)])

Kept(w, x) == Compact(w, x.N, x.S)

(* what nothing the program holds can reach is gone *)
Collect(w, held) ==
  Kept(w, Reach(w, ({1, w.Owner} \cup {w.runs[i].root : i \in DOMAIN w.runs}) \ {0},
                {CountSig, VisibleSig, ListSig, ProcessedSig}
                  \cup (Range(w.globalSignals) \ {0}) \cup held
                  \cup UNION {DescSigs(w.runs[i].res) : i \in DOMAIN w.runs}))

----------------------------------------------------------------------------
(* The state between two calls *)

(* the world a call of the host program starts in: in the root's body the *)
(* root is the Owner and createRoot's runUpdates holds an Effects queue   *)
World ==
  [node |-> node, sig |-> sig, globalSignals |-> globalSignals, live |-> live,
   Owner |-> IF phase = "body" THEN 1 ELSE 0, Listener |-> 0,
   Updates |-> <<>>, UpdatesOn |-> FALSE, EffectsOn |-> (phase = "body"),
   ExecCount |-> 1, log |-> <<>>, ret |-> 0, err |-> "",
   currentContext |-> currentContext, runs |-> runs, res |-> NoFn]

HeldSigs == {handles[h].sig : h \in DOMAIN handles} \ {0}

(* the program's state after a call *)
Store(w) ==
  /\ node' = w.node
  /\ sig' = w.sig
  /\ globalSignals' = w.globalSignals
  /\ live' = w.live
  /\ currentContext' = w.currentContext
  /\ runs' = w.runs

Stored(w) == Store(w) /\ log' = w.log

Commit(w0) == Stored(Collect(w0, HeldSigs))

NewArray(elems) == [ref |-> 1, elems |-> elems]

(* a [get, set] pair the host holds: the signal, the key it was asked     *)
(* for, and whether resetGlobalStates() has run since                      *)
NoHandle == [key |-> 0, sig |-> 0, old |-> FALSE]

(* a { result, dispose } pair the host holds: the rule that was run and   *)
(* its parameters, the root dispose cleans, the result, and whether the    *)
(* host has called dispose                                                 *)
NoRun == [prog |-> "none", a |-> 0, b |-> 0, root |-> 0, res |-> NoFn, disposed |-> FALSE]

(* createRoot((dispose) => { ... }) has been entered and the State signals *)
(* of the program made                                                     *)
Init ==
  /\ node = <<NodeRec("root", NoFn, 0, FALSE)>>
  /\ sig = <<SigRec(0), SigRec(0), SigRec([ref |-> 0, elems |-> <<>>]), SigRec(0)>>
  /\ phase = "body"
  /\ globalSignals = [k \in Keys |-> 0]
  /\ handles = [h \in 1 .. MaxHandles |-> NoHandle]
  /\ currentContext = <<>>
  /\ lastError = ""
  /\ live = {}
  /\ runs = [i \in 1 .. MaxRuns |-> NoRun]
  /\ log = <<>>

RECURSIVE SeqsUpTo(_, _)
SeqsUpTo(S, n) ==
  IF n = 0 THEN {<<>>}
  ELSE LET shorter == SeqsUpTo(S, n - 1)
       IN shorter \cup {Append(q, x) : q \in shorter, x \in S}

Lists == SeqsUpTo(Items, MaxLen)

RootOwned(k) == \E i \in 1 .. Len(node[1].owned) : node[node[1].owned[i]].fn.k = k

(* Effect(() => { result = s() }) in the root's body *)
EffectCall(s) ==
  /\ phase = "body"
  /\ ~\E i \in 1 .. Len(node[1].owned) : node[node[1].owned[i]].fn = EffectFn(s)
  /\ Commit(Emit(Effect(World, EffectFn(s)), Event("Effect", s, 0, 0)))
  /\ UNCHANGED <<phase, handles, lastError>>

(* Show(when, onTrue, onFalse) in the root's body *)
ShowCall(when, children, fallback) ==
  /\ phase = "body"
  /\ ~RootOwned("show")
  /\ Commit(Show(World, when, children, fallback))
  /\ UNCHANGED <<phase, handles, lastError>>

(* For(list, childFn) in the root's body *)
ForCall ==
  /\ phase = "body"
  /\ ~RootOwned("for")
  /\ Commit(Emit(For(World, [k |-> "sig", sref |-> ListSig], ItemFn),
                 Event("For", 0, 0, 0)))
  /\ UNCHANGED <<phase, handles, lastError>>

(* the removals the item scopes now live can still count: the counter is *)
(* capped by keeping room for them                                         *)
Mapped ==
  Cardinality({n \in 1 .. Len(node) :
                 \E i \in 1 .. Len(node[n].cleanups) : node[n].cleanups[i].k = "remove"})

Room == sig[ProcessedSig].value + Mapped <= MaxProcessed

(* setVisible(v), setProcessedCount(v) or setProcessedCount(p => p + 1) *)
SetState(s, u) ==
  /\ Room
  /\ u.k = "inc" => sig[s].value < MaxVal
  /\ Commit(Setter(World, s, u))
  /\ UNCHANGED <<phase, handles, lastError>>

(* setList([...]) with a new array *)
SetList(elems) ==
  /\ Room
  /\ Commit(Setter(World, ListSig, [k |-> "val", v |-> NewArray(elems)]))
  /\ UNCHANGED <<phase, handles, lastError>>

(* dispose(), the function createRoot passed to the body *)
Dispose ==
  /\ Room
  /\ Commit(dispose(World, 1))
  /\ UNCHANGED <<phase, handles, lastError>>

(* the root's body returns: createRoot restores Owner and drops Effects *)
RootReturn ==
  /\ phase = "body"
  /\ phase' = "mounted"
  /\ log' = <<>>
  /\ UNCHANGED <<node, sig, globalSignals, handles, currentContext, lastError, live, runs>>

Whens == {[k |-> "sig", sref |-> VisibleSig]} \cup {[k |-> "val", v |-> c] : c \in {0, 1}}
Children == {Branch(1, n) : n \in {0, 1}}
Fallbacks == {Branch(0, 0), [k |-> "none"]}
Writes == {[k |-> "val", v |-> v] : v \in Values} \cup {[k |-> "inc"]}

(* the list program: For over the list, an Effect on the removal counter *)
NextFor ==
  \/ EffectCall(ProcessedSig)
  \/ ForCall
  \/ \E u \in Writes : SetState(ProcessedSig, u)
  \/ \E l \in Lists : SetList(l)
  \/ Dispose
  \/ RootReturn

SpecFor == Init /\ [][NextFor]_vars

(* the Show program *)
NextShow ==
  \/ \E when \in Whens, c \in Children, f \in Fallbacks : ShowCall(when, c, f)
  \/ \E u \in Writes : SetState(VisibleSig, u)
  \/ Dispose
  \/ RootReturn

SpecShow == Init /\ [][NextShow]_vars

(* Effect(fn) in the root's body, once per function *)
EffectOf(fn) ==
  /\ phase = "body"
  /\ ~\E i \in 1 .. Len(node[1].owned) : node[node[1].owned[i]].fn = fn
  /\ Commit(Emit(Effect(World, fn), Event("Effect", 0, 0, 0)))
  /\ UNCHANGED <<phase, handles, lastError>>

(* the effect program: an effect that reads the counter behind the flag,   *)
(* an effect that writes the signal it reads, the Poller, writes to the     *)
(* three signals, and the dispose handle                                    *)
NextDeps ==
  \/ \E fn \in {GateFn, BumpFn, PollerFn} : EffectOf(fn)
  \/ \E s \in {CountSig, VisibleSig, ProcessedSig}, u \in Writes : SetState(s, u)
  \/ Dispose
  \/ RootReturn

SpecDeps == Init /\ [][NextDeps]_vars

(* the task program: the engine is shown while the status signal is        *)
(* truthy, the tasks change, the root is disposed                          *)
NextTask ==
  \/ ShowCall([k |-> "sig", sref |-> VisibleSig], Engine, Branch(0, 0))
  \/ \E u \in Writes : SetState(VisibleSig, u)
  \/ \E l \in Lists : SetList(l)
  \/ Dispose
  \/ RootReturn

SpecTask == Init /\ [][NextTask]_vars

(* the world after a call that took a handle into slot h, or threw:       *)
(* a throw leaves the slot as it was                                       *)
StoreHandle(w, err, taken, h, key, initial, via) ==
  /\ Store(w)
  /\ lastError' = err
  /\ log' = Append(w.log, Event(via, key, initial, IF err = "" THEN 1 ELSE 0))
  /\ handles' = [i \in DOMAIN handles |->
                   IF i = h /\ err = ""
                   THEN [key |-> key, sig |-> w.ret[taken], old |-> FALSE]
                   ELSE [handles[i] EXCEPT !.sig = w.ret[@]]]

Taken(w0, h) == IF w0.err = "" THEN w0.ret ELSE handles[h].sig

CommitHandle(w0, h, key, initial, via) ==
  StoreHandle(Collect(w0, ({handles[i].sig : i \in DOMAIN handles \ {h}}
                             \cup {Taken(w0, h)}) \ {0}),
              w0.err, Taken(w0, h), h, key, initial, via)

(* const pair = Global(key, initial), or Global(key) with initial undefined *)
GlobalCall(h, key, initial) ==
  /\ CommitHandle(Global(World, key, initial), h, key, initial, "Global")
  /\ UNCHANGED phase

(* const { result } = runLogic({ "$global": [key, initial] }) *)
RunLogicGlobal(h, key, initial) ==
  /\ CommitHandle(runLogic(World, Op("$global", IF initial = Undefined THEN <<Num(key)>>
                                              ELSE <<Num(key), Num(initial)>>), <<>>),
                  h, key, initial, "runLogic")
  /\ UNCHANGED phase

(* the program's state after a write through the pair in slot h *)
StoreSet(w, h, v) ==
  /\ Store(w)
  /\ log' = <<Event("write", h, v, w.log[Len(w.log)].y)>>
  /\ handles' = [i \in DOMAIN handles |-> [handles[i] EXCEPT !.sig = w.ret[@]]]

(* the setter of the pair in slot h *)
HandleSet(h, v) ==
  /\ handles[h].sig # 0
  /\ StoreSet(Collect(Setter(World, handles[h].sig, [k |-> "val", v |-> v]), HeldSigs),
              h, v)
  /\ lastError' = ""
  /\ UNCHANGED phase

(* the program's state after resetGlobalStates(): the pairs held are old *)
StoreReset(w) ==
  /\ Store(w)
  /\ log' = Append(w.log, Event("reset", 0, 0, 0))
  /\ handles' = [i \in DOMAIN handles |->
                   [handles[i] EXCEPT !.sig = w.ret[@],
                                      !.old = (handles[i].sig # 0)]]

(* resetGlobalStates() *)
ResetGlobalStates ==
  /\ StoreReset(Collect(resetGlobalStates(World), HeldSigs))
  /\ lastError' = ""
  /\ UNCHANGED phase

GlobalValues == 0 .. MaxGlobal
Initials == GlobalValues \cup {Undefined}

(* the variable a new pair is assigned to: a free one while there is one *)
Free == {h \in 1 .. MaxHandles : handles[h].sig = 0}
Targets == IF Free = {} THEN 1 .. MaxHandles ELSE {CHOOSE h \in Free : \A g \in Free : h <= g}

(* the registry program *)
NextGlobal ==
  \/ \E h \in Targets, k \in Keys, v \in Initials : GlobalCall(h, k, v)
  \/ \E h \in Targets, k \in Keys, v \in Initials : RunLogicGlobal(h, k, v)
  \/ \E h \in 1 .. MaxHandles, v \in GlobalValues : HandleSet(h, v)
  \/ ResetGlobalStates

SpecGlobal == Init /\ [][NextGlobal]_vars

----------------------------------------------------------------------------
(* The host program of the interpreter: runLogic calls, their results and *)
(* their dispose handles                                                   *)

(* const { result, dispose } = runLogic(...): the pair is kept in a slot; *)
(* a call that throws assigns nothing, and slot 0 is a pair not kept       *)
TakeRun(w, slot, prog, a, b, root) ==
  IF w.err # "" \/ slot = 0 THEN w
  ELSE [w EXCEPT !.runs[slot] = [prog |-> prog, a |-> a, b |-> b, root |-> root,
                                 res |-> w.res, disposed |-> FALSE]]

(* the program's state after a call of the interpreter's host *)
StoreRun(w) ==
  /\ Store(w)
  /\ log' = w.log
  /\ lastError' = w.err
  /\ handles' = [i \in DOMAIN handles |-> [handles[i] EXCEPT !.sig = w.ret[@]]]

(* the call is logged last: which slot, and whether it returned *)
Called(w, e, slot) == Emit(w, Event(e, slot, IF w.err = "" THEN 1 ELSE 0, 0))

(* runLogic(rule, data), the pair assigned to the slot *)
Run(slot, prog, a, b, rule, data) ==
  /\ StoreRun(Collect(Called(TakeRun(runLogic(World, rule, data), slot, prog, a, b,
                                     Len(node) + 1),
                             "run", slot),
                      HeldSigs))
  /\ UNCHANGED phase

RunSlots == 1 .. MaxRuns

(* runLogic({ $set: [{ $global: [key, initial] }, v] }, {}) *)
RunSetGlobal(slot, key, initial, v) ==
  Run(slot, "setglobal", key, v,
      Op("$set", <<Op("$global", IF initial = Undefined THEN <<Num(key)>>
                                 ELSE <<Num(key), Num(initial)>>),
                   Num(v)>>),
      <<>>)

(* the dispose handle of the pair in the slot is called *)
disposed(w, slot) == [w EXCEPT !.runs[slot].disposed = TRUE]

DisposeRun(slot) ==
  /\ runs[slot].root # 0
  /\ StoreRun(Collect(Emit(disposed(dispose(World, runs[slot].root), slot),
                           Event("dispose", slot,
                                 IF runs[slot].disposed THEN 1 ELSE 0, 0)),
                      HeldSigs))
  /\ UNCHANGED phase

(* the sharing program: keys written inside runLogic roots, read from the *)
(* root of createRoot and from other runLogic roots                        *)
NextShare ==
  \/ \E k \in Keys, i \in Initials, v \in GlobalValues : RunSetGlobal(1, k, i, v)
  \/ \E h \in Targets, k \in Keys : GlobalCall(h, k, Undefined)
  \/ \E h \in Targets, k \in Keys : RunLogicGlobal(h, k, Undefined)
  \/ DisposeRun(1)

SpecShare == Init /\ [][NextShare]_vars

(* jest.fn(): the spies of the run in a slot, told apart by their number *)
Spy(slot, kind) == [k |-> "spy", id |-> slot * NSpies + kind]

(* the scope program: a local signal s, a cleanup, an effect reading s and *)
(* the key of the registry, a `$show` on s whose true branch registers a   *)
(* cleanup, and a `$for` over the host's list whose items register one     *)
ScopeRule ==
  Op("def", <<Str("s"), Op("$state", <<Num(0)>>), Lazy(Op("seq", <<
    Op("$cleanup", <<Lazy(Op("call", <<Var("closed")>>))>>),
    Op("$effect", <<Lazy(Op("call", <<Var("ran"), Op("call", <<Var("s")>>),
                                      Op("call", <<Op("$global", <<Num(1), Num(0)>>)>>)>>))>>),
    Op("$show", <<Lazy(Op("call", <<Var("s")>>)),
                  Lazy(Op("seq", <<Op("call", <<Var("shown")>>),
                                   Op("$cleanup", <<Lazy(Op("call", <<Var("hidden")>>))>>)>>)),
                  Lazy(Op("call", <<Var("fallen")>>))>>),
    Op("$for", <<Var("list"),
                 Lazy(Op("seq", <<Op("call", <<Var("added"), Var("item")>>),
                                  Op("$cleanup", <<Lazy(Op("call", <<Var("dropped"),
                                                                     Var("item")>>))>>)>>))>>),
    Var("s")>>))>>)

ScopeData(slot) ==
  [closed |-> Spy(slot, 1), ran |-> Spy(slot, 2), shown |-> Spy(slot, 3),
   hidden |-> Spy(slot, 4), fallen |-> Spy(slot, 5), added |-> Spy(slot, 6),
   dropped |-> Spy(slot, 7), list |-> [k |-> "sig", sref |-> ListSig]]

(* const { result, dispose } = runLogic(scopeRule, data): the host fills   *)
(* its variables in order                                                  *)
RunScope(slot) ==
  /\ runs[slot].root = 0
  /\ \A g \in RunSlots : g < slot => runs[g].root # 0
  /\ Run(slot, "scope", 0, 0, ScopeRule, ScopeData(slot))

(* runLogic({ $set: [{ $global: [key] }, v] }, {}), the pair not kept *)
WriteGlobal(key, v) ==
  /\ globalSignals[key] # 0
  /\ RunSetGlobal(0, key, Undefined, v)

(* result.set(v): the setter the result of the run carries *)
ResultSet(slot, v) ==
  /\ runs[slot].res.k = "sig"
  /\ StoreRun(Collect(Emit(Setter(World, runs[slot].res.sref, [k |-> "val", v |-> v]),
                           Event("result.set", slot, v, 0)),
                      HeldSigs))
  /\ UNCHANGED phase

(* createRoot's dispose handle, called by the host; the host's body has   *)
(* ended by then                                                           *)
DisposeRoot ==
  /\ StoreRun(Collect(Emit(dispose(World, 1),
                           Event("Dispose", 0, IF phase = "disposed" THEN 1 ELSE 0, 0)),
                      HeldSigs))
  /\ phase' = "disposed"

ScopeLists == {<<1, 2>>}

(* the scope program: two runs of the scope rule, writes to their local    *)
(* signals, to the key and to the list, and their dispose handles          *)
NextScope ==
  \/ \E slot \in RunSlots : RunScope(slot)
  \/ \E slot \in RunSlots, v \in GlobalValues : ResultSet(slot, v)
  \/ \E v \in GlobalValues : WriteGlobal(1, v)
  \/ \E l \in ScopeLists : SetList(l)
  \/ \E slot \in RunSlots : DisposeRun(slot)

SpecScope == Init /\ [][NextScope]_vars

(* the disposal program: one run of the scope rule and a Show in the body  *)
(* of the host's root, each with its dispose handle                        *)
NextOnce ==
  \/ RunScope(1)
  \/ \E v \in GlobalValues : ResultSet(1, v)
  \/ \E l \in ScopeLists : SetList(l)
  \/ DisposeRun(1)
  \/ ShowCall([k |-> "val", v |-> 1], Branch(1, 0), Branch(0, 0))
  \/ RootReturn
  \/ DisposeRoot

SpecOnce == Init /\ [][NextOnce]_vars

(* const { result } = runLogic({ $state: v }) *)
RunState(slot, v) == Run(slot, "state", v, 0, Op("$state", <<Num(v)>>), <<>>)

(* runLogic({ $set: [{ var: 'ref' }, v] }, { ref: result }), the result of *)
(* the pair in the slot, the new pair not kept                             *)
RunSetRef(slot, v) ==
  /\ runs[slot].res.k = "sig"
  /\ StoreRun(Collect(Emit(runLogic(World, Op("$set", <<Var("ref"), Num(v)>>),
                                    [ref |-> runs[slot].res]),
                           Event("$set", slot, v, 0)),
                      HeldSigs))
  /\ UNCHANGED phase

(* runLogic({ def: ['x', v, { var: 'x' }] }), the rule plain or wrapped as *)
(* a lazy node                                                             *)
RunDef(slot, v, lazy) ==
  Run(slot, "def", v, IF lazy THEN 1 ELSE 0,
      Op("def", <<Str("x"), Num(v), IF lazy THEN Lazy(Var("x")) ELSE Var("x")>>),
      <<>>)

(* the operator program: local signals written through their results and  *)
(* through `$set`, and local variables defined by `def`                    *)
NextLogic ==
  \/ \E slot \in RunSlots, v \in Values : RunState(slot, v)
  \/ \E slot \in RunSlots, v \in Values : ResultSet(slot, v)
  \/ \E slot \in RunSlots, v \in Values : RunSetRef(slot, v)
  \/ \E slot \in RunSlots, v \in Values, lazy \in BOOLEAN : RunDef(slot, v, lazy)

SpecLogic == Init /\ [][NextLogic]_vars

(* the condition given to `$show`: a literal, a `$state` made in place as  *)
(* in the README, the signal of the host found in the context, or a lazy   *)
(* node that calls it                                                      *)
When(kind, c) ==
  CASE kind = "show-lit" -> Num(c)
    [] kind = "show-state" -> Op("$state", <<Num(c)>>)
    [] kind = "show-var" -> Var("flag")
    [] kind = "show-lazy" -> Lazy(Op("call", <<Var("flag")>>))

(* runLogic({ $show: [when, lazy(call pos), lazy(call neg)] },             *)
(*          { pos, neg, flag })                                            *)
RunShow(slot, kind, c) ==
  /\ runs[slot].root = 0
  /\ \A g \in RunSlots : g < slot => runs[g].root # 0
  /\ Run(slot, kind, c, 0,
         Op("$show", <<When(kind, c), Lazy(Op("call", <<Var("pos")>>)),
                       Lazy(Op("call", <<Var("neg")>>))>>),
         [pos |-> Spy(slot, 1), neg |-> Spy(slot, 2),
          flag |-> [k |-> "sig", sref |-> VisibleSig]])

(* the conditional program: `$show` over each kind of condition, writes to *)
(* the host's signal, and the dispose handles                              *)
NextLazy ==
  \/ \E slot \in RunSlots, c \in {0, 1} : RunShow(slot, "show-lit", c)
  \/ \E slot \in RunSlots, c \in {0, 1} : RunShow(slot, "show-state", c)
  \/ \E slot \in RunSlots : RunShow(slot, "show-var", 0)
  \/ \E slot \in RunSlots : RunShow(slot, "show-lazy", 0)
  \/ \E u \in Writes : SetState(VisibleSig, u)
  \/ \E slot \in RunSlots : DisposeRun(slot)

SpecLazy == Init /\ [][NextLazy]_vars

(* the lists given to `$for`: [1, 2, 3] and every list as long or shorter *)
EachLists == SeqsUpTo(Items, NItems)

(* the child rule of the test, with the position added:                   *)
(* { call: [{ var: 'spy' }, { var: 'item' }, { call: [{ var: 'index' }] }] } *)
EachRule(list) ==
  Op("$for", <<Arr([i \in 1 .. Len(list) |-> Num(list[i])]),
               Lazy(Op("call", <<Var("spy"), Var("item"),
                                 Op("call", <<Var("index")>>)>>))>>)

(* runLogic({ $for: [list, lazy(child)] }, { spy }) as in the test, or     *)
(* with the spy bound by def around `$for` only:                           *)
(* runLogic({ def: ['spy', { var: 'outer' }, lazy({ $for: ... })] },       *)
(*          { outer })                                                     *)
RunFor(slot, list, bound) ==
  /\ runs[slot].root = 0
  /\ Run(slot, "each", list, IF bound THEN 1 ELSE 0,
         IF bound THEN Op("def", <<Str("spy"), Var("outer"), Lazy(EachRule(list))>>)
         ELSE EachRule(list),
         IF bound THEN [outer |-> Spy(slot, 1)] ELSE [spy |-> Spy(slot, 1)])

(* the iteration program: `$for` over literal lists, and the dispose       *)
(* handle                                                                  *)
NextEach ==
  \/ \E l \in EachLists, bound \in BOOLEAN : RunFor(1, l, bound)
  \/ DisposeRun(1)

SpecEach == Init /\ [][NextEach]_vars

(* For(list, children) in the root's body *)
ForOf(children) ==
  /\ phase = "body"
  /\ ~RootOwned("for")
  /\ Commit(Emit(For(World, [k |-> "sig", sref |-> ListSig], children),
                 Event("For", 0, 0, 0)))
  /\ UNCHANGED <<phase, handles, lastError>>

(* the reading program: a Show on the flag and a For over the list whose   *)
(* callbacks read the counter in their bodies, and writes to the three      *)
NextPeek ==
  \/ ShowCall([k |-> "sig", sref |-> VisibleSig], Peek(1, 0), Peek(0, 0))
  \/ ForOf(Peek(PollerId, 2))
  \/ \E s \in {CountSig, VisibleSig}, u \in Writes : SetState(s, u)
  \/ \E l \in ScopeLists : SetList(l)
  \/ Dispose
  \/ RootReturn

SpecPeek == Init /\ [][NextPeek]_vars

(* the bodies given without the lazy wrapper: each is a call of a spy      *)
(* { seq: [ { $effect: call(fx, call(flag)) }, { $cleanup: call(cl) },      *)
(*          { $show: [lazy(call(flag)), call(pos), call(neg)] },            *)
(*          { $for: [list, call(child, item)] } ] }                         *)
EagerRule ==
  Op("seq", <<
    Op("$effect", <<Op("call", <<Var("fx"), Op("call", <<Var("flag")>>)>>)>>),
    Op("$cleanup", <<Op("call", <<Var("cl")>>)>>),
    Op("$show", <<Lazy(Op("call", <<Var("flag")>>)),
                  Op("call", <<Var("pos")>>), Op("call", <<Var("neg")>>)>>),
    Op("$for", <<Var("list"), Op("call", <<Var("child"), Var("item")>>)>>)>>)

EagerData(slot) ==
  [fx |-> Spy(slot, 1), cl |-> Spy(slot, 2), pos |-> Spy(slot, 3), neg |-> Spy(slot, 4),
   child |-> Spy(slot, 5), flag |-> [k |-> "sig", sref |-> VisibleSig],
   list |-> [k |-> "sig", sref |-> ListSig]]

(* const { dispose } = runLogic(eagerRule, data) *)
RunEager(slot) ==
  /\ runs[slot].root = 0
  /\ \A g \in RunSlots : g < slot => runs[g].root # 0
  /\ Run(slot, "eager", 0, 0, EagerRule, EagerData(slot))

(* the eager program: the rule above, writes to the flag and to the list   *)
(* it follows, and the dispose handles                                      *)
NextEager ==
  \/ \E slot \in RunSlots : RunEager(slot)
  \/ \E u \in Writes : SetState(VisibleSig, u)
  \/ \E l \in ScopeLists : SetList(l)
  \/ \E slot \in RunSlots : DisposeRun(slot)

SpecEager == Init /\ [][NextEager]_vars

(* a rule that starts an `$effect` and a `$show` on the host's flag and     *)
(* then, when `throws`, asks for a key of the registry nobody registered:   *)
(* { seq: [ { $effect: lazy(call(ran, call(flag))) },                       *)
(*          { $show: [lazy(call(flag)), lazy(call(shown)), lazy(call(hidden))] }, *)
(*          { $global: [key] } ] }                                          *)
PartialRule(throws) ==
  Op("seq", <<
    Op("$effect", <<Lazy(Op("call", <<Var("ran"), Op("call", <<Var("flag")>>)>>))>>),
    Op("$show", <<Lazy(Op("call", <<Var("flag")>>)),
                  Lazy(Op("call", <<Var("shown")>>)),
                  Lazy(Op("call", <<Var("hidden")>>))>>),
    IF throws THEN Op("$global", <<Num(NKeys)>>) ELSE Num(0)>>)

PartialData(slot) ==
  [ran |-> Spy(slot, 1), shown |-> Spy(slot, 2), hidden |-> Spy(slot, 3),
   flag |-> [k |-> "sig", sref |-> VisibleSig]]

(* try { pair = runLogic(partialRule, data) } catch (e) { lastError = e }:  *)
(* the host makes at most MaxThrows calls that throw                        *)
RunPartial(slot, throws) ==
  /\ runs[slot].root = 0
  /\ \A g \in RunSlots : g < slot => runs[g].root # 0
  /\ throws => Len(sig[VisibleSig].observers)
                 < 2 * (MaxThrows + Cardinality({g \in RunSlots : runs[g].root # 0
                                                                  /\ ~runs[g].disposed}))
  /\ Run(slot, "partial", IF throws THEN 1 ELSE 0, 0, PartialRule(throws),
         PartialData(slot))

(* the partial program: runs that return and runs that throw, writes to    *)
(* the flag, and the dispose handles of the runs that returned              *)
NextPartial ==
  \/ \E slot \in RunSlots, throws \in BOOLEAN : RunPartial(slot, throws)
  \/ \E u \in Writes : SetState(VisibleSig, u)
  \/ \E slot \in RunSlots : DisposeRun(slot)

SpecPartial == Init /\ [][NextPartial]_vars

(* the rules of the context program, a being the value `def` binds:        *)
(* "nest" binds x and y in nested `def`s and then starts an effect beside   *)
(* them; "lazy" is the same rule handed to runLogic as a lazy node; "throw" *)
(* asks for a key of the registry nobody registered, inside a `def`;        *)
(* "closure" defers an effect, a cleanup, the branches of a `$show` and an  *)
(* effect inside a `$for` item under a binding of x and returns the signal  *)
(* they follow; "lambda" makes                                              *)
(* a function under a binding of x, calls it under another one and returns  *)
(* it; "overlay" binds x, maps a list and then reads x, item and index      *)
CtxNest(a) ==
  Op("seq", <<
    Op("def", <<Str("x"), Num(a),
                Lazy(Op("def", <<Str("y"), Num(0),
                                 Lazy(Op("call", <<Var("in"), Var("x"), Var("y")>>))>>))>>),
    Op("$effect", <<Lazy(Op("call", <<Var("out"), Var("x"), Var("y")>>))>>)>>)

CtxThrow(a) ==
  Op("seq", <<
    Op("def", <<Str("x"), Num(a),
                Lazy(Op("seq", <<Op("call", <<Var("in"), Var("x"), Var("y")>>),
                                 Op("$global", <<Num(NKeys)>>)>>))>>),
    Op("$effect", <<Lazy(Op("call", <<Var("out"), Var("x"), Var("y")>>))>>)>>)

CtxClosure(a) ==
  Op("def", <<Str("x"), Num(a), Lazy(Op("def", <<Str("s"), Op("$state", <<Num(0)>>),
    Lazy(Op("seq", <<
      Op("$effect", <<Lazy(Op("call", <<Var("ran"), Var("x"),
                                        Op("call", <<Var("s")>>)>>))>>),
      Op("$cleanup", <<Lazy(Op("call", <<Var("closed"), Var("x")>>))>>),
      Op("$show", <<Lazy(Op("call", <<Var("s")>>)),
                    Lazy(Op("call", <<Var("shown"), Var("x")>>)),
                    Lazy(Op("call", <<Var("fallen"), Var("x")>>))>>),
      Op("$for", <<Arr(<<Var("x")>>),
                   Lazy(Op("$effect", <<Lazy(Op("call", <<Var("each"), Var("item"),
                                                          Op("call", <<Var("s")>>)>>))>>))>>),
      Var("s")>>))>>))>>)

CtxLambda(a) ==
  Op("def", <<Str("x"), Num(a), Lazy(Op("def", <<Str("f"),
    Op("lambda", <<Lazy(Op("call", <<Var("lam"), Var("x"), Var("args")>>))>>),
    Lazy(Op("seq", <<
      Op("def", <<Str("x"), Num(0), Lazy(Op("call", <<Var("f"), Num(a)>>))>>),
      Var("f")>>))>>))>>)

CtxOverlay(a) ==
  Op("seq", <<
    Op("def", <<Str("x"), Num(a), Lazy(Op("call", <<Var("in"), Var("x")>>))>>),
    Op("$for", <<Arr(<<Num(a), Num(MaxVal + 1 - a)>>),
                 Lazy(Op("seq", <<
                   Op("call", <<Var("added"), Var("item"), Var("y")>>),
                   Op("def", <<Str("y"), Var("item"),
                               Lazy(Op("call", <<Var("inner"), Var("y"),
                                                 Op("call", <<Var("index")>>)>>))>>)>>))>>),
    Op("call", <<Var("after"), Var("x"), Var("item")>>),
    Op("$effect", <<Lazy(Op("call", <<Var("out"), Var("x"), Var("index")>>))>>)>>)

CtxKinds == {"nest", "lazy", "throw", "closure", "lambda", "overlay"}

CtxRule(kind, a) ==
  CASE kind = "nest" -> CtxNest(a)
    [] kind = "lazy" -> Lazy(CtxNest(a))
    [] kind = "throw" -> CtxThrow(a)
    [] kind = "closure" -> CtxClosure(a)
    [] kind = "lambda" -> CtxLambda(a)
    [] kind = "overlay" -> CtxOverlay(a)

(* the data of the context program: the spies, and for the rules that read *)
(* the enclosing context the values it binds                               *)
CtxData(slot, kind) ==
  CASE kind \in {"nest", "lazy", "throw"} ->
         [in |-> Spy(slot, 1), out |-> Spy(slot, 2), x |-> Val(0)]
    [] kind = "closure" ->
         [ran |-> Spy(slot, 3), closed |-> Spy(slot, 4), shown |-> Spy(slot, 5),
          fallen |-> Spy(slot, 6), each |-> Spy(slot, 1)]
    [] kind = "lambda" -> [lam |-> Spy(slot, 7)]
    [] kind = "overlay" ->
         [in |-> Spy(slot, 1), out |-> Spy(slot, 2), added |-> Spy(slot, 3),
          inner |-> Spy(slot, 4), after |-> Spy(slot, 5),
          x |-> Val(0), item |-> Val(0), index |-> Val(0)]

(* const { result, dispose } = runLogic(rule, data) *)
RunCtx(slot, kind, a) ==
  /\ runs[slot].root = 0
  /\ \A g \in RunSlots : g < slot => runs[g].root # 0
  /\ Run(slot, kind, a, 0, CtxRule(kind, a), CtxData(slot, kind))

(* what the function returned is logged with the call *)
Invoked(w, slot, arg) == Emit(w, Event("result()", slot, arg, Shown(w.res)))

(* result(arg): the function a `lambda` made, called by the host *)
CallResult(slot, arg) ==
  /\ runs[slot].res.k = "lam"
  /\ StoreRun(Collect(Invoked(call(World, runs[slot].res, arg, Undefined), slot, arg),
                      HeldSigs))
  /\ UNCHANGED phase

(* the context program: the rules above, writes to the signal a run        *)
(* returned, calls of the function a run returned, and the dispose handles *)
NextCtx ==
  \/ \E slot \in RunSlots, kind \in CtxKinds, a \in 1 .. MaxVal : RunCtx(slot, kind, a)
  \/ \E slot \in RunSlots, v \in Values : ResultSet(slot, v)
  \/ \E slot \in RunSlots, arg \in Values : CallResult(slot, arg)
  \/ \E slot \in RunSlots : DisposeRun(slot)

SpecCtx == Init /\ [][NextCtx]_vars


----------------------------------------------------------------------------
(* What the log of the last call says *)

Count(l, e, x) == Cardinality({i \in 1 .. Len(l) : l[i].e = e /\ l[i].x = x})
Occ(q, x) == Cardinality({i \in 1 .. Len(q) : q[i] = x})
Monus(a, b) == IF a > b THEN a - b ELSE 0
Now == [node |-> node, sig |-> sig]
Elems == sig[ListSig].value.elems

C2_EffectRunsOnceBeforeReturn ==
  \A i \in 1 .. Len(log) :
    log[i].e = "Effect" =>
      /\ Cardinality({j \in 1 .. i - 1 :
                        log[j].e = "effect" /\ log[j].x = log[i].x}) = 1
      /\ \E j \in 1 .. i - 1 :
           /\ log[j].e = "effect" /\ log[j].x = log[i].x
           /\ log[j].y = sig[log[i].x].value

(* Effect has just returned over a signal written before *)
C2_Witness ==
  /\ \E i \in 1 .. Len(log) : log[i].e = "Effect"
  /\ sig[ProcessedSig].value > 0

ShowNodes == {n \in 1 .. Len(node) : node[n].fn.k = "show"}

(* the value the condition of a Show yields now *)
ConditionNow(a) == IF "sref" \in DOMAIN a THEN sig[a.sref].value ELSE a.v

(* the branch names entered by the run logged at i: the enter events up   *)
(* to the next run                                                         *)
Entered(i, name) ==
  Cardinality({j \in i + 1 .. Len(log) :
                 /\ log[j].e = "enter" /\ log[j].x = name
                 /\ \A m \in i + 1 .. j : log[m].e # "show"})

(* C3: each run of Show calls onTrue exactly when the condition is truthy *)
(* and onFalse exactly when it is falsy, never both; no branch is called   *)
(* outside a run; and while the Show lives the branch last called is the   *)
(* one of the condition's current value.                                   *)
C3_ShowBranchMatchesCondition ==
  /\ \A i \in 1 .. Len(log) :
       log[i].e = "show" =>
         /\ Entered(i, 1) = IF Truthy(log[i].x) /\ log[i].y = 1 THEN 1 ELSE 0
         /\ Entered(i, 0) = IF ~Truthy(log[i].x) /\ log[i].z = 1 THEN 1 ELSE 0
  /\ \A j \in 1 .. Len(log) :
       log[j].e = "enter" => \E i \in 1 .. j - 1 : log[i].e = "show"
  /\ \A n \in ShowNodes :
       LET f == node[n].fn IN
       live = IF Truthy(ConditionNow(f.condition))
              THEN (IF IsFunction(f.children) THEN {1} ELSE {})
              ELSE (IF IsFunction(f.fallback) THEN {0} ELSE {})

(* a write made the condition falsy and the Show ran onFalse *)
C3_Witness ==
  /\ \E i, j \in 1 .. Len(log) :
       /\ i < j
       /\ log[i].e = "show" /\ ~Truthy(log[i].x)
       /\ log[j].e = "enter" /\ log[j].x = 0
  /\ \E i \in 1 .. Len(log) : log[i].e = "set"
  /\ live = {0}

(* C4: when a branch of Show is entered no resource of a branch is live   *)
(* (the cleanups of the branch left have run), a cleanup only runs for a   *)
(* branch that was constructed, and at most one branch is live.            *)
C4_CleanupBeforeEnter ==
  /\ \A i \in 1 .. Len(log) : log[i].e = "enter" => log[i].z = 0
  /\ \A i \in 1 .. Len(log) : log[i].e = "cleanup" => log[i].y = 1
  /\ Cardinality(live) <= 1

(* a transition: the cleanup of onTrue, then the body of onFalse *)
C4_Witness ==
  \E i, j \in 1 .. Len(log) :
    /\ i < j
    /\ log[i].e = "cleanup" /\ log[i].x = 1
    /\ log[j].e = "enter" /\ log[j].x = 0

ForLive == RootOwned("for")

(* C5: an update of the list calls childFn once for each item newly       *)
(* present and for no item kept, and runs the cleanup of each item absent  *)
(* from the new list once (counted with multiplicity); creating the For    *)
(* calls childFn once per item and disposing it runs each cleanup once.    *)
C5_ForDiff ==
  [][\A it \in Items :
       LET was == IF ForLive THEN Occ(Elems, it) ELSE 0
           is == IF ForLive' THEN Occ(Elems', it) ELSE 0
       IN /\ Count(log', "child", it) = Monus(is, was)
          /\ Count(log', "remove", it) = Monus(was, is)]_vars

(* [a, b] became [a, c]: c mapped, b removed, a untouched *)
C5_Witness ==
  /\ ForLive
  /\ \E a, b, c \in Items :
       /\ a # b /\ a # c /\ b # c
       /\ Occ(Elems, a) = 1 /\ Occ(Elems, c) = 1
       /\ Count(log, "child", a) = 0 /\ Count(log, "remove", a) = 0
       /\ Count(log, "child", c) = 1 /\ Count(log, "remove", b) = 1

Monitors == {n \in 1 .. Len(node) : node[n].fn.k = "monitor"}

(* every item scope's index accessor yields a position holding its item, *)
(* one scope per position, and its Effect has read that position           *)
IndexesCurrent ==
  /\ Cardinality(Monitors) = Len(Elems)
  /\ \A n \in Monitors :
       LET p == sig[node[n].fn.sref].value + 1 IN
       /\ p \in 1 .. Len(Elems)
       /\ Elems[p] = node[n].fn.item
       /\ Observed(Now, node[n].fn.sref)
  /\ \A n, m \in Monitors :
       n # m => sig[node[n].fn.sref].value # sig[node[m].fn.sref].value

(* C6: while a For lives each item's index accessor yields the item's     *)
(* current position and the Effects reading it have observed it; a pure    *)
(* reordering of the list calls childFn for no item, runs no item cleanup  *)
(* and re-runs an Effect reading an index.                                 *)
C6_IndexFollowsPosition ==
  [][/\ ForLive' => IndexesCurrent'
     /\ (/\ ForLive /\ ForLive'
         /\ Elems' # Elems
         /\ \A it \in Items : Occ(Elems', it) = Occ(Elems, it))
        => /\ \A i \in 1 .. Len(log') : log'[i].e \notin {"child", "remove"}
           /\ \E i \in 1 .. Len(log') : log'[i].e = "monitor"]_vars

(* a list of two different items was reordered: an Effect re-ran with the *)
(* second position and nothing was mapped or removed                       *)
C6_Witness ==
  /\ ForLive
  /\ Len(Elems) = 2 /\ Elems[1] # Elems[2]
  /\ \A i \in 1 .. Len(log) : log[i].e \notin {"child", "remove"}
  /\ \E i \in 1 .. Len(log) : log[i].e = "monitor" /\ log[i].y = 1

(* the last call was Global(key, initial), directly or through runLogic *)
Asked(l) == Len(l) = 1 /\ l[1].e \in {"Global", "runLogic"}
Read(h) == sig[handles[h].sig].value
Slots == 1 .. MaxHandles

(* C7: every handle taken for a key since the last reset is the one       *)
(* Signal the registry holds for the key, and a call for a registered key  *)
(* succeeds and leaves the Signal's value as it was, whatever initial is.  *)
C7_OneSignalPerKey ==
  [][/\ \A h \in Slots :
          handles'[h].sig # 0 /\ ~handles'[h].old
            => globalSignals'[handles'[h].key] = handles'[h].sig
     /\ \A k \in Keys :
          Asked(log') /\ log'[1].x = k /\ globalSignals[k] # 0
            => /\ lastError' = ""
               /\ globalSignals'[k] # 0
               /\ sig'[globalSignals'[k]].value = sig[globalSignals[k]].value]_vars

(* two handles of one key, the second asked with another initial value *)
C7_Witness ==
  /\ Asked(log) /\ log[1].y # Undefined
  /\ \E h1, h2 \in Slots :
       /\ h1 # h2
       /\ handles[h1].key = log[1].x /\ handles[h2].key = log[1].x
       /\ ~handles[h1].old /\ ~handles[h2].old
       /\ Read(h1) # log[1].y

(* C8: Global(key) with no initial for an unregistered key, called        *)
(* directly or by `$global` in runLogic, fails and changes nothing: no     *)
(* Signal is made, no key registered, every handle and value is kept.      *)
C8_MissingKeyFails ==
  [][Asked(log') /\ log'[1].y = Undefined /\ globalSignals[log'[1].x] = 0
       => /\ lastError' = "not found"
          /\ log'[1].z = 0
          /\ UNCHANGED <<node, sig, globalSignals, handles, currentContext>>]_vars

(* runLogic failed on a missing key while another key holds a value *)
C8_Witness ==
  /\ Asked(log) /\ log[1].e = "runLogic"
  /\ lastError = "not found"
  /\ \E k \in Keys : globalSignals[k] # 0 /\ sig[globalSignals[k]].value # 0

(* C9: resetGlobalStates() leaves no key registered; the next call for a  *)
(* key fails without an initial and, with initial v, registers a Signal    *)
(* whose reader yields v.                                                  *)
C9_ResetClears ==
  [][/\ Len(log') = 1 /\ log'[1].e = "reset" => \A k \in Keys : globalSignals'[k] = 0
     /\ (Len(log) = 1 /\ log[1].e = "reset" /\ Asked(log'))
        => LET k == log'[1].x
               v == log'[1].y
           IN IF v = Undefined
              THEN lastError' = "not found" /\ globalSignals'[k] = 0
              ELSE /\ lastError' = ""
                   /\ globalSignals'[k] # 0
                   /\ sig'[globalSignals'[k]].value = v
                   /\ \E h \in Slots :
                        /\ handles'[h] = [key |-> k, sig |-> globalSignals'[k],
                                          old |-> FALSE]]_vars

(* a key registered again after a reset with another value than the one  *)
(* its old Signal holds                                                    *)
C9_Witness ==
  /\ Asked(log) /\ log[1].z = 1
  /\ \E h1, h2 \in Slots :
       /\ handles[h1].key = log[1].x /\ handles[h1].old
       /\ handles[h2].key = log[1].x /\ ~handles[h2].old /\ handles[h2].sig # 0
       /\ Read(h2) = log[1].y
       /\ Read(h1) # log[1].y

(* C10: a write through a handle is read back through it, also after a    *)
(* reset; a handle of the same key taken on the other side of a reset is   *)
(* another Signal and reads what it read before.                           *)
C10_StaleHandleIsolated ==
  [][Len(log') = 1 /\ log'[1].e = "write"
       => LET h == log'[1].x IN
          /\ sig'[handles'[h].sig].value = log'[1].y
          /\ \A h2 \in Slots :
               /\ handles[h2].sig # 0
               /\ handles[h2].key = handles[h].key
               /\ handles[h2].old # handles[h].old
               => /\ handles'[h2].sig # handles'[h].sig
                  /\ sig'[handles'[h2].sig].value = sig[handles[h2].sig].value]_vars

(* a write through a stale handle while a new handle of the key exists *)
C10_Witness ==
  /\ Len(log) = 1 /\ log[1].e = "write"
  /\ handles[log[1].x].old
  /\ \E h2 \in Slots :
       /\ handles[h2].sig # 0 /\ ~handles[h2].old
       /\ handles[h2].key = handles[log[1].x].key
       /\ Read(h2) # log[1].y

(* the call the log ends with *)
Ended(l, e) == Len(l) > 0 /\ l[Len(l)].e = e
Ending(l) == l[Len(l)]

(* runLogic has just returned the pair of the program prog *)
Returned1(l, rs, prog) ==
  /\ Ended(l, "run") /\ Ending(l).y = 1 /\ Ending(l).x # 0
  /\ rs[Ending(l).x].prog = prog

(* C11: a value written to a key by `$set` on `$global` inside a runLogic *)
(* root is the value of the key's Signal; Global(key) called from another  *)
(* root returns that Signal with the value it held; and disposing the root *)
(* of the runLogic call leaves every key registered with its value.        *)
C11_GlobalOutlivesRoot ==
  [][/\ Returned1(log', runs', "setglobal")
          => LET run == runs'[Ending(log').x] IN
             /\ globalSignals'[run.a] # 0
             /\ sig'[globalSignals'[run.a]].value = run.b
     /\ \A k \in Keys :
          Asked(log') /\ log'[1].x = k /\ globalSignals[k] # 0
            => \E h \in Slots :
                 /\ handles'[h].key = k
                 /\ handles'[h].sig = globalSignals'[k]
                 /\ sig'[handles'[h].sig].value = sig[globalSignals[k]].value
     /\ Ended(log', "dispose")
          => \A k \in Keys :
               IF globalSignals[k] = 0 THEN globalSignals'[k] = 0
               ELSE /\ globalSignals'[k] # 0
                    /\ sig'[globalSignals'[k]].value = sig[globalSignals[k]].value]_vars

(* the root that wrote 1 to a key was disposed, and a handle taken from   *)
(* another root reads 1                                                    *)
C11_Witness ==
  /\ Ended(log, "dispose") /\ Ending(log).y = 0
  /\ runs[1].prog = "setglobal" /\ runs[1].b = 1
  /\ \E h \in Slots :
       /\ handles[h].key = runs[1].a
       /\ handles[h].sig = globalSignals[runs[1].a]
       /\ handles[h].sig # 0
       /\ Read(h) = 1

(* the scope of a root or computation: itself, the computations it owns,  *)
(* the item roots the cleanup of a mapArray it called disposes, and their  *)
(* scopes                                                                  *)
RECURSIVE Scope(_, _)
Scope(nd, n) ==
  IF n = 0 THEN {}
  ELSE {n}
       \cup UNION {Scope(nd, nd[n].owned[i]) : i \in 1 .. Len(nd[n].owned)}
       \cup UNION {UNION {Scope(nd, d) : d \in Range(nd[c.nref].ma.disposers)} :
                     c \in {x \in Range(nd[n].cleanups) : x.k = "disposers"}}

(* the cleanups the program registered, by onCleanup or `$cleanup`, that  *)
(* the scope of a root holds                                               *)
Registered(nd, root) ==
  UNION {{<<n, i>> : i \in {j \in 1 .. Len(nd[n].cleanups) :
                              nd[n].cleanups[j].k \in
                                {"lclean", "release", "remove", "tell"}}} :
         n \in Scope(nd, root)}

(* what a cleanup tells when it runs: the release of a live branch, the    *)
(* removal of an item, or the call of the spy its rule names               *)
Told(c) ==
  CASE c.k = "release" -> Event("cleanup", c.name, 1, 0)
    [] c.k = "remove" -> Event("remove", c.item, 0, 0)
    [] c.k = "tell" -> Event(c.e, 0, 0, 0)
    [] OTHER -> Event("spy", c.ctx[c.body.rule.args[1].args[1].lit.s].id,
                      IF Len(c.body.rule.args) > 1 THEN c.ctx["item"].v ELSE Undefined,
                      Undefined)

(* how often the scope of a root holds a cleanup telling ev *)
Holds(nd, root, ev) ==
  Cardinality({p \in Registered(nd, root) : Told(nd[p[1]].cleanups[p[2]]) = ev})

(* a dispose handle was called: the cleanups the scope held have run, each *)
(* once, and nothing else; the scope holds none afterwards; and a handle   *)
(* called before leaves the state as it is                                 *)
DisposedOnce(root, again) ==
  /\ lastError' = ""
  /\ \A i \in 1 .. Len(log') - 1 :
       /\ Holds(node, root, log'[i]) >= 1
       /\ Occ(SubSeq(log', 1, Len(log') - 1), log'[i]) = Holds(node, root, log'[i])
  /\ Len(log') - 1 = Cardinality(Registered(node, root))
  /\ Registered(node', root) = {}
  /\ again => /\ Len(log') = 1
              /\ node' = node /\ sig' = sig /\ globalSignals' = globalSignals
              /\ live' = live /\ currentContext' = currentContext /\ runs' = runs

(* C12: the first call of a dispose handle, createRoot's or runLogic's,    *)
(* runs every cleanup registered under the root exactly once; a later call *)
(* of the handle runs nothing, changes no state and raises no error.       *)
C12_DisposeIdempotent ==
  [][/\ Ended(log', "dispose")
          => /\ DisposedOnce(runs[Ending(log').x].root, runs[Ending(log').x].disposed)
             /\ Ending(log').y = 1 <=> runs[Ending(log').x].disposed
             /\ \A i \in RunSlots :
                  runs'[i].disposed <=> runs[i].disposed \/ i = Ending(log').x
     /\ Ended(log', "Dispose")
          => /\ DisposedOnce(1, phase = "disposed")
             /\ \A i \in RunSlots : runs'[i].disposed <=> runs[i].disposed]_vars

(* the handle of a run was called again after its four cleanups ran, and   *)
(* the handle of the host's root, which held a branch, was called too      *)
C12_Witness ==
  /\ Ended(log, "dispose") /\ Ending(log).y = 1
  /\ runs[1].disposed /\ sig[runs[1].res.sref].value = 1
  /\ Elems = <<1, 2>>
  /\ phase = "disposed"

(* C13, as stated: in the log of a call, every cleanup of a child scope    *)
(* (the removal of a task, the release of its alert) comes before every    *)
(* cleanup of the engine's own scope, and of the engine's own cleanups the *)
(* one registered last comes first.                                        *)
C13_ChildrenBeforeOwnCleanups ==
  /\ \A i, j \in 1 .. Len(log) :
       log[i].e \in {"halted", "armed"} /\ log[j].e \in {"remove", "cleanup"} => j < i
  /\ \A i, j \in 1 .. Len(log) : log[i].e = "halted" /\ log[j].e = "armed" => i < j

(* C13, amended: when a scope is disposed, every computation it owns is    *)
(* disposed (and its cleanups run) before any of the scope's own cleanups  *)
(* run, and the scope's own cleanups run in reverse order of their         *)
(* registration; the item scopes of a For are disposed in the place of a   *)
(* cleanup registered when For was called, after the cleanups registered   *)
(* later and before the ones registered earlier.                           *)
C13_OwnedBeforeOwnCleanups ==
  /\ \A i \in 1 .. Len(log) :
       log[i].e = "remove" /\ Priority(log[i].x) = 1
         => i > 1 /\ log[i - 1].e = "cleanup" /\ log[i - 1].x = log[i].x
  /\ \A i \in 1 .. Len(log) :
       log[i].e = "halted" => \E j \in i + 1 .. Len(log) : log[j].e = "armed"
  /\ \A j \in 1 .. Len(log) :
       log[j].e = "armed" => \E i \in 1 .. j - 1 : log[i].e = "halted"
  /\ \A i, k \in 1 .. Len(log) : log[i].e = "halted" /\ log[k].e = "remove" => i < k
  /\ \A j, k \in 1 .. Len(log) : log[j].e = "armed" /\ log[k].e = "remove" => k < j

(* the engine was stopped with both tasks mapped: its halt is logged, then *)
(* the release of the alert and the removal of the second task, then the   *)
(* cleanup the engine registered first                                     *)
C13_Witness ==
  \E i, j, k \in 1 .. Len(log) :
    /\ i < j /\ j < k
    /\ log[i].e = "halted" /\ log[j].e = "remove" /\ log[j].x = 2
    /\ log[j - 1].e = "cleanup" /\ log[k].e = "armed"
    /\ Count(log, "remove", 1) = 1

(* the Show computation the root owns *)
RootShow(nd) == CHOOSE n \in Range(nd[1].owned) : nd[n].fn.k = "show"

(* how often the scope of n holds a cleanup logging e for x *)
HoldsFor(nd, n, e, x) ==
  Cardinality({p \in Registered(nd, n) :
                 /\ Told(nd[p[1]].cleanups[p[2]]).e = e
                 /\ Told(nd[p[1]].cleanups[p[2]]).x = x})

(* C14: when the branch of the root's Show is left, by a write that      *)
(* changes the condition or by the disposal of the root, every cleanup     *)
(* registered inside the branch (the engine's, the task scopes', the       *)
(* alert's) runs exactly once; no step runs a cleanup that is no longer    *)
(* registered, so the cleanup of a removed task does not run again; and    *)
(* the removal counter grows by one with each removal logged.              *)
C14_BranchCleanupsOnce ==
  [][/\ RootOwned("show")
          /\ (sig'[VisibleSig].value # sig[VisibleSig].value \/ node'[1].owned = <<>>)
          => \A e \in {"cleanup", "remove", "halted", "armed"}, x \in 0 .. NItems :
               Count(log', e, x) = HoldsFor(node, RootShow(node), e, x)
     /\ \A e \in {"cleanup", "remove", "halted", "armed"}, x \in 0 .. NItems :
          Count(log', e, x) <= HoldsFor(node, 1, e, x)
     /\ sig'[ProcessedSig].value =
          sig[ProcessedSig].value
            + Cardinality({i \in 1 .. Len(log') : log'[i].e = "remove"})]_vars

(* the task example: a task was removed from the list earlier, and now the *)
(* engine was stopped with one task left; the counter is exactly 2         *)
C14_Witness ==
  /\ \E i \in 1 .. Len(log) : log[i].e = "halted"
  /\ Cardinality({i \in 1 .. Len(log) : log[i].e = "remove"}) = 1
  /\ Len(Elems) = 1
  /\ sig[VisibleSig].value = 0
  /\ sig[ProcessedSig].value = 2

(* C15: runLogic({ "$state": v }) returns a reader that yields v and       *)
(* carries its writer; after the writer is called with w, directly or by   *)
(* `$set`, the reader yields w.                                            *)
C15_StateReaderWriter ==
  [][/\ Returned1(log', runs', "state")
          => /\ runs'[Ending(log').x].res.k = "sig"
             /\ sig'[runs'[Ending(log').x].res.sref].value = runs'[Ending(log').x].a
     /\ Ended(log', "result.set") \/ Ended(log', "$set")
          => sig'[runs'[Ending(log').x].res.sref].value = Ending(log').y]_vars

(* `$set` has just written to the signal of a `$state` result a value      *)
(* other than the one it was made with                                     *)
C15_Witness ==
  /\ Ended(log, "$set")
  /\ runs[Ending(log).x].prog = "state"
  /\ runs[Ending(log).x].a # Ending(log).y
  /\ sig[runs[Ending(log).x].res.sref].value = Ending(log).y

(* C18: the result of { def: [name, value, rule] } with rule a reference   *)
(* to name is value, whether rule is given plain or as a lazy node.        *)
C18_DefBindsName ==
  \A slot \in RunSlots :
    runs[slot].prog = "def" => runs[slot].res = Val(runs[slot].a)

ShowProgs == {"show-lit", "show-state", "show-var", "show-lazy"}

(* the value of the condition of the `$show` a run made *)
CondValue(rs, sg, slot) ==
  IF rs[slot].prog \in {"show-lit", "show-state"} THEN rs[slot].a
  ELSE sg[VisibleSig].value

(* how often the log tells a call of the spy of a slot *)
Spied(l, slot, kind) == Count(l, "spy", Spy(slot, kind).id)

(* C16: when `$show` is given a true condition and lazy branches, the rule *)
(* of the true branch is evaluated once and the rule of the false branch   *)
(* not at all while runLogic runs; and no later step in which the          *)
(* condition stays true evaluates the rule of the false branch.            *)
C16_ShowBranchesLazy ==
  [][/\ \A slot \in RunSlots :
          /\ Ended(log', "run") /\ Ending(log').x = slot /\ Ending(log').y = 1
          /\ runs'[slot].prog \in ShowProgs
          /\ Truthy(CondValue(runs', sig', slot))
          => Spied(log', slot, 1) = 1 /\ Spied(log', slot, 2) = 0
     /\ \A slot \in RunSlots :
          /\ runs[slot].prog \in ShowProgs /\ runs'[slot].prog \in ShowProgs
          /\ Truthy(CondValue(runs, sig, slot))
          /\ Truthy(CondValue(runs', sig', slot))
          => Spied(log', slot, 2) = 0]_vars

(* the test: `$show` over true has called pos once and neg never *)
C16_Witness ==
  /\ Returned1(log, runs, "show-lit")
  /\ runs[Ending(log).x].a = 1
  /\ Spied(log, Ending(log).x, 1) = 1
  /\ Spied(log, Ending(log).x, 2) = 0

(* C20: the branch `$show` takes follows the truthiness of the condition's *)
(* current value: when runLogic returns, the rule of the true branch has   *)
(* been evaluated if the value is truthy, else the rule of the false       *)
(* branch, whether the condition is a literal, a `$state`, a signal of the *)
(* context or a lazy node; and a write that changes the truthiness of the  *)
(* signal evaluates the rule of the other branch of every `$show` not      *)
(* disposed whose condition is that signal.                                *)
C20_ShowFollowsCondition ==
  [][/\ \A slot \in RunSlots :
          /\ Ended(log', "run") /\ Ending(log').x = slot /\ Ending(log').y = 1
          /\ runs'[slot].prog \in ShowProgs
          => IF Truthy(CondValue(runs', sig', slot))
             THEN Spied(log', slot, 1) = 1 /\ Spied(log', slot, 2) = 0
             ELSE Spied(log', slot, 1) = 0 /\ Spied(log', slot, 2) = 1
     /\ \A slot \in RunSlots :
          /\ runs[slot].prog \in {"show-var", "show-lazy"} /\ ~runs[slot].disposed
          /\ ~Ended(log', "dispose")
          /\ Truthy(sig[VisibleSig].value) # Truthy(sig'[VisibleSig].value)
          => IF Truthy(sig'[VisibleSig].value)
             THEN Spied(log', slot, 1) = 1 /\ Spied(log', slot, 2) = 0
             ELSE Spied(log', slot, 1) = 0 /\ Spied(log', slot, 2) = 1]_vars

IsSpy(ev) == ev.e = "spy"

(* C17: `$for` over a list evaluates the lazy child rule once per item, in *)
(* list order, in the context captured at the `$for` call with `item`      *)
(* bound to the item and `index` to the accessor of its position: the spy  *)
(* that only the captured context binds is called once per position, in    *)
(* order, with the item and the position.                                  *)
C17_ForEachItemInOrder ==
  [][Returned1(log', runs', "each")
       => SelectSeq(log', IsSpy)
            = [i \in 1 .. Len(runs'[Ending(log').x].a) |->
                 Event("spy", Spy(Ending(log').x, 1).id,
                       runs'[Ending(log').x].a[i], i - 1)]]_vars

(* the test: over [1, 2, 3] the spy was called three times, with 1, 2, 3 *)
C17_Witness ==
  /\ Returned1(log, runs, "each")
  /\ runs[Ending(log).x].a = <<1, 2, 3>>
  /\ Len(SelectSeq(log, IsSpy)) = 3
  /\ \A i \in 1 .. 3 : SelectSeq(log, IsSpy)[i].y = i

(* C19: the dispose handle of a runLogic call tears its whole scope down:  *)
(* its first call runs every cleanup registered during the evaluation      *)
(* (by `$cleanup` at the top, inside `$show` and inside `$for`) and leaves *)
(* none registered; once it was called, no later write to the local        *)
(* signal, to the key of the registry or to the list re-runs an `$effect`, *)
(* `$show` or `$for` of that call; and the scope of another runLogic call  *)
(* keeps its cleanups, runs nothing when this handle is called, and its    *)
(* `$effect` still re-runs once on each later change of the key.           *)
C19_DisposeTearsDownScope ==
  [][\A slot \in RunSlots :
       runs[slot].prog = "scope"
         => /\ Ended(log', "dispose") /\ Ending(log').x = slot /\ Ending(log').y = 0
                 => /\ \A p \in Registered(node, runs[slot].root) :
                         Occ(log', Told(node[p[1]].cleanups[p[2]]))
                           = Holds(node, runs[slot].root, Told(node[p[1]].cleanups[p[2]]))
                    /\ Registered(node', runs'[slot].root) = {}
            /\ runs[slot].disposed
                 => \A k \in 1 .. NSpies : Spied(log', slot, k) = 0
            /\ ~runs[slot].disposed /\ Ended(log', "dispose") /\ Ending(log').x # slot
                 => /\ Cardinality(Registered(node', runs'[slot].root))
                         = Cardinality(Registered(node, runs[slot].root))
                    /\ \A k \in 1 .. NSpies : Spied(log', slot, k) = 0
            /\ (/\ ~runs[slot].disposed /\ ~Ended(log', "dispose")
                /\ sig'[globalSignals'[1]].value # sig[globalSignals[1]].value)
                 => Spied(log', slot, 2) = 1]_vars

(* the key was written after the first run was disposed with its `$show`   *)
(* and `$for` cleanups registered: the effect of the second run has re-run *)
(* and nothing of the first                                                *)
C19_Witness ==
  /\ Ended(log, "run") /\ Ending(log).x = 0
  /\ runs[1].prog = "scope" /\ runs[1].disposed
  /\ sig[runs[1].res.sref].value = 1
  /\ runs[2].prog = "scope" /\ ~runs[2].disposed
  /\ Spied(log, 2, 2) = 1
  /\ \A k \in 1 .. NSpies : Spied(log, 1, k) = 0

(* the calls of a spy the log tells, in order *)
Calls(l, slot, kind) == SelectSeq(l, LAMBDA ev : ev = [ev EXCEPT !.e = "spy", !.x = Spy(slot, kind).id])

(* C21: the current-context register is restored on every exit of exec:    *)
(* after every call of runLogic, one that throws inside a nested exec       *)
(* included, and after every later call of the host, the register holds     *)
(* the context it held before; and a closure made beside a nested `def`,    *)
(* after the `def` returned (the rule given as it is or as a lazy node),    *)
(* has captured the enclosing context, where x is 0 and y is unbound, not   *)
(* the context of the `def`.                                                *)
C21_ContextRestored ==
  /\ currentContext = <<>>
  /\ \A slot \in RunSlots :
       Returned1(log, runs, "nest") \/ Returned1(log, runs, "lazy")
         => /\ Calls(log, slot, 1)
                 = IF Ending(log).x = slot
                   THEN <<Event("spy", Spy(slot, 1).id, runs[slot].a, 0)>> ELSE <<>>
            /\ Calls(log, slot, 2)
                 = IF Ending(log).x = slot
                   THEN <<Event("spy", Spy(slot, 2).id, 0, Undefined)>> ELSE <<>>

(* a run threw inside the rule of a `def`, after the rule had read the     *)
(* binding of the `def`                                                     *)
C21_Witness ==
  /\ lastError = "not found"
  /\ Ended(log, "run") /\ Ending(log).y = 0
  /\ Calls(log, 1, 1) = <<Event("spy", Spy(1, 1).id, MaxVal, Undefined)>>

(* every call of the spy the log tells gave it y first *)
AllWith(l, slot, kind, y) ==
  \A i \in 1 .. Len(l) : l[i].e = "spy" /\ l[i].x = Spy(slot, kind).id => l[i].y = y

(* C22: a deferred body is evaluated in the context captured where its     *)
(* operator was called: in every call of the host (the run itself, a write  *)
(* to the signal that re-runs the `$effect`s and switches the `$show`, the  *)
(* dispose handle that runs the `$cleanup`), the bodies made under a `def`  *)
(* binding x, and the one made inside a `$for` item, read the value bound   *)
(* where they were made; and the body of a `lambda` reads the x bound where *)
(* `lambda` was called, whether it is called under another binding of x or  *)
(* by the host, and finds no binding of its arguments.                      *)
C22_DeferredBodiesUseCapturedContext ==
  \A slot \in RunSlots :
    /\ runs[slot].prog = "closure"
         => \A kind \in {1, 3, 4, 5, 6} : AllWith(log, slot, kind, runs[slot].a)
    /\ runs[slot].prog = "lambda"
         => /\ AllWith(log, slot, 7, runs[slot].a)
            /\ \A i \in 1 .. Len(log) :
                 log[i].e = "spy" /\ log[i].x = Spy(slot, 7).id => log[i].z = Undefined
            /\ Ended(log, "result()") /\ Ending(log).x = slot
                 => Len(Calls(log, slot, 7)) = 1
            /\ Returned1(log, runs, "lambda") /\ Ending(log).x = slot
                 => Len(Calls(log, slot, 7)) = 1

(* a write to the signal re-ran both effects and entered the true branch   *)
(* of the `$show` with the register empty, and each read the value bound    *)
(* where it was made, while the host also holds a function of `lambda`      *)
C22_Witness ==
  /\ runs[1].prog = "closure" /\ runs[1].a = MaxVal
  /\ runs[2].prog = "lambda"
  /\ Ended(log, "result.set") /\ Ending(log).x = 1
  /\ currentContext = <<>>
  /\ Calls(log, 1, 3) = <<Event("spy", Spy(1, 3).id, MaxVal, 1)>>
  /\ Calls(log, 1, 1) = <<Event("spy", Spy(1, 1).id, MaxVal, 1)>>
  /\ Calls(log, 1, 5) = <<Event("spy", Spy(1, 5).id, MaxVal, Undefined)>>

(* the calls the overlay rule makes when x is bound to a over a context     *)
(* that binds x, item and index to 0                                        *)
OverlayCalls(slot, a) ==
  <<Event("spy", Spy(slot, 1).id, a, Undefined),
    Event("spy", Spy(slot, 3).id, a, Undefined),
    Event("spy", Spy(slot, 4).id, a, 0),
    Event("spy", Spy(slot, 3).id, MaxVal + 1 - a, Undefined),
    Event("spy", Spy(slot, 4).id, MaxVal + 1 - a, 1),
    Event("spy", Spy(slot, 5).id, 0, 0),
    Event("spy", Spy(slot, 2).id, 0, 0)>>

(* C23: `def` and `$for` extend the context by a copy: with x, item and    *)
(* index bound to 0 in the context given to runLogic, the rule of a `def`   *)
(* of x reads the new x; each `$for` item reads its own item and position   *)
(* and finds unbound the y that the item before it bound with `def`; and    *)
(* the rule evaluated after both, and the `$effect` made after both, read   *)
(* x, item and index as 0.                                                  *)
C23_ContextCopiedOnExtend ==
  Returned1(log, runs, "overlay")
    => SelectSeq(log, IsSpy) = OverlayCalls(Ending(log).x, runs[Ending(log).x].a)

(* the overlay rule has run with x bound to the largest value *)
C23_Witness ==
  /\ Returned1(log, runs, "overlay")
  /\ runs[Ending(log).x].a = MaxVal
  /\ Calls(log, Ending(log).x, 5) = <<Event("spy", Spy(Ending(log).x, 5).id, 0, 0)>>
  /\ Len(Calls(log, Ending(log).x, 4)) = 2

(* the signals a computation is subscribed to, the signals it read on its  *)
(* latest run, and the computations a signal notifies                       *)
Sources(nd, n) == {nd[n].sources[j].s : j \in 1 .. Len(nd[n].sources)}
SeenBy(nd, n) == {nd[n].seen[j].s : j \in 1 .. Len(nd[n].seen)}
Observers(sg, s) == {sg[s].observers[j].n : j \in 1 .. Len(sg[s].observers)}
Gates(nd) == {n \in 1 .. Len(nd) : nd[n].fn = GateFn}

(* C24: after every call, each computation is subscribed to exactly the    *)
(* signals it read on its latest run, once each, and each signal notifies   *)
(* exactly the computations subscribed to it: the effect that reads the     *)
(* counter only behind the flag is subscribed to the flag, and to the       *)
(* counter just when the flag is truthy; a change of the counter re-runs it *)
(* once when the flag is truthy and not at all when it is not, whatever it  *)
(* read on earlier runs.                                                    *)
C24_SubscriptionsMatchLastRun ==
  [][/\ \A n \in 1 .. Len(node') :
          /\ Sources(node', n) = SeenBy(node', n)
          /\ Cardinality(Sources(node', n)) = Len(node'[n].sources)
          /\ \A s \in 1 .. Len(sig') : n \in Observers(sig', s) <=> s \in Sources(node', n)
     /\ \A n \in Gates(node') :
          Sources(node', n) = IF Truthy(sig'[VisibleSig].value)
                              THEN {VisibleSig, CountSig} ELSE {VisibleSig}
     /\ (/\ Gates(node) # {} /\ Gates(node') # {}
         /\ sig'[CountSig].value # sig[CountSig].value)
          => /\ Count(log', "gate", 0) = 0
             /\ Count(log', "gate", 1) = IF Truthy(sig[VisibleSig].value) THEN 1 ELSE 0]_vars

(* the effect holds the value 1 it read from the counter on an earlier run; *)
(* the counter was then written while the flag was falsy and the effect was *)
(* subscribed to the flag only: the effect did not run                      *)
C24_Witness ==
  /\ Gates(node) # {}
  /\ \A n \in Gates(node) : Sources(node, n) = {VisibleSig} /\ node[n].value = 1
  /\ ~Truthy(sig[VisibleSig].value)
  /\ Ended(log, "set") /\ Ending(log).x = CountSig /\ Ending(log).y = 2
  /\ sig[CountSig].value = MaxVal
  /\ Count(log, "gate", 0) + Count(log, "gate", 1) = 0

(* no run of the effect begins between the begin and the end of another *)
RunsApart(l) ==
  \A i \in 1 .. Len(l) : \A j \in i + 1 .. Len(l) :
    l[i].e = "begin" /\ l[j].e = "begin" => \E k \in i + 1 .. j - 1 : l[k].e = "end"

(* C25: a computation never re-runs while one of its own runs is still     *)
(* executing: when the effect writes the signal it has read, the write is   *)
(* accepted, and the re-run it causes begins only after the run that wrote  *)
(* has ended.                                                               *)
C25_NoReentrantRun ==
  /\ RunsApart(log)
  /\ Count(log, "begin", 1) > 0 => sig[ProcessedSig].value = 2

(* the computations of Show *)
Shows(nd) == {n \in 1 .. Len(nd) : nd[n].fn.k = "show"}

(* the log tells no entry of a branch and no cleanup of one *)
Quiet(l) == \A i \in 1 .. Len(l) : l[i].e \notin {"enter", "cleanup"}

EagerCalls(slot, flag) ==
  <<Event("spy", Spy(slot, 1).id, flag, Undefined),
    Event("spy", Spy(slot, 2).id, Undefined, Undefined),
    Event("spy", Spy(slot, 3).id, Undefined, Undefined),
    Event("spy", Spy(slot, 4).id, Undefined, Undefined),
    Event("spy", Spy(slot, 5).id, Undefined, Undefined)>>

(* C27: a body given without the lazy wrapper to `$effect`, `$cleanup`,    *)
(* `$show` or `$for` raises no error and is evaluated once, when the        *)
(* operation is evaluated: the run calls the five spies once each, in the   *)
(* order of the rule, both branches of `$show` whatever the flag holds and  *)
(* the `$for` body with no item bound; and no later write to the flag       *)
(* (which re-runs `$show` and switches its branch), no later write to the   *)
(* list and no disposal calls any of them again.                            *)
C27_EagerBodyRunsOnce ==
  [][/\ lastError' = ""
     /\ SelectSeq(log', IsSpy)
          = IF Ended(log', "run")
            THEN EagerCalls(Ending(log').x, sig'[VisibleSig].value)
            ELSE <<>>]_vars

(* after a run and a disposal of another one, a write to the flag has      *)
(* re-run the `$show` of the run still live, and no spy was called          *)
C27_Witness ==
  /\ runs[1].prog = "eager" /\ runs[1].disposed
  /\ runs[2].prog = "eager" /\ ~runs[2].disposed
  /\ Ended(log, "set") /\ Ending(log).x = VisibleSig
  /\ Count(log, "show", 1) = 1
  /\ SelectSeq(log, IsSpy) = <<>>
  /\ lastError = ""

(* no run of runLogic the host holds is live *)
NoneLive(rs) == \A slot \in RunSlots : rs[slot].root = 0 \/ rs[slot].disposed

(* C28: when the rule throws while runLogic evaluates it, the error reaches *)
(* the caller, the register is as before the call, and nothing of the       *)
(* scope remains: the computations the rule made before it threw are        *)
(* subscribed to nothing, and while the host holds no live run no later     *)
(* write to the flag calls a spy.                                           *)
C28_ThrowLeavesNoPartialRoot ==
  [][/\ Ended(log', "run") /\ Ending(log').y = 0
          => /\ lastError' = "not found"
             /\ currentContext' = currentContext
             /\ Len(sig'[VisibleSig].observers) = Len(sig[VisibleSig].observers)
     /\ NoneLive(runs) /\ Ended(log', "set")
          => SelectSeq(log', IsSpy) = <<>>]_vars

(* the computations of the Poller's effect *)
Pollers(nd) == {n \in 1 .. Len(nd) : nd[n].fn = PollerFn}

(* C29: the cleanup an Effect registers with Cleanup during a run runs     *)
(* exactly once, before the next run of the Effect starts or when the       *)
(* enclosing scope is disposed: a step that re-runs the Poller's effect or  *)
(* disposes the root clears the interval once, while it is set, and no      *)
(* other step clears it; every run sets its interval while none is set;     *)
(* and after every step the interval is set just when the effect is live.   *)
C29_EffectCleanupOncePerRun ==
  [][/\ Count(log', "cleanup", PollerId)
          = IF Pollers(node) # {}
               /\ (Pollers(node') = {} \/ sig'[CountSig].value # sig[CountSig].value)
            THEN 1 ELSE 0
     /\ Count(log', "enter", PollerId)
          = IF Pollers(node') # {}
               /\ (Pollers(node) = {} \/ sig'[CountSig].value # sig[CountSig].value)
            THEN 1 ELSE 0
     /\ \A i \in 1 .. Len(log') :
          /\ log'[i].e = "cleanup" /\ log'[i].x = PollerId => log'[i].y = 1
          /\ log'[i].e = "enter" /\ log'[i].x = PollerId
               => /\ log'[i].z = 0
                  /\ log'[i].y = sig'[CountSig].value
                  /\ \A j \in i + 1 .. Len(log') : log'[j].e # "cleanup"
     /\ live' = IF Pollers(node') # {} THEN {PollerId} ELSE {}]_vars

(* the url was written while the Poller was live: its interval was cleared *)
(* and then set again, and one interval is set                              *)
C29_Witness ==
  /\ Pollers(node) # {}
  /\ live = {PollerId}
  /\ Ended(log, "set") /\ Ending(log).x = CountSig
  /\ \E i \in 1 .. Len(log) :
       /\ log[i] = Event("cleanup", PollerId, 1, 0)
       /\ log[i + 1] = Event("enter", PollerId, MaxVal, 0)

(* the name of the branch a value of the condition selects *)
Side(v) == IF Truthy(v) THEN 1 ELSE 0

(* C30: a signal read in the body of a branch callback of Show is a        *)
(* dependency of Show's computation: a step that changes the counter and    *)
(* leaves the flag as it was, with the Show live, runs the cleanup of the   *)
(* live branch once and invokes the callback of the same branch once more,  *)
(* which reads the new value, and never touches the other branch; the       *)
(* callbacks and the cleanups of the For items, which read the counter in   *)
(* the same way, are not run by that step.                                  *)
C30_ShowBranchReadsTracked ==
  [][sig'[CountSig].value # sig[CountSig].value
       => /\ sig'[VisibleSig].value = sig[VisibleSig].value
          /\ \A i \in 1 .. Len(log') :
               /\ log'[i].e \in {"peek", "enter", "cleanup"} => log'[i].x <= 1
               /\ log'[i].e = "peek" => log'[i].y = sig'[CountSig].value
          /\ \A e \in {"peek", "enter", "cleanup"} :
               /\ Count(log', e, Side(sig[VisibleSig].value))
                    = IF Shows(node) # {} THEN 1 ELSE 0
               /\ Count(log', e, 1 - Side(sig[VisibleSig].value)) = 0]_vars

(* the counter was written while the true branch of the Show and two items *)
(* of the For were live: the branch was cleaned and entered again, and the  *)
(* items were left alone                                                    *)
C30_Witness ==
  /\ Shows(node) # {}
  /\ live = {1, PollerId + 1, PollerId + 2}
  /\ Ended(log, "set") /\ Ending(log).x = CountSig
  /\ Count(log, "cleanup", 1) = 1
  /\ Count(log, "peek", 1) = 1
  /\ \A i \in 1 .. Len(log) : log[i].e = "peek" => log[i].x = 1 /\ log[i].y = MaxVal

====
